---- MODULE Spec2Model ----
(***************************************************************************)
(* Model of the generic data-access layer (Crud), the Result-based service  *)
(* layer (BaseService / UserService) and the request-scoped session of the  *)
(* boilerplate FastAPI application.                                         *)
(*                                                                          *)
(* The table of UserEntity rows is a set of records with pairwise distinct  *)
(* ids.  Every Crud method is an operator from (table, arguments, fault)    *)
(* to a record [t, exc, msg, val]: the table after the call, the class of   *)
(* the exception that leaves the method ("none" when it returns), its       *)
(* message and the returned value.  An optional value (Entity | None) is a  *)
(* set with at most one element.  Coroutines are modelled by their results: *)
(* `await f(x)` is the value or the exception of f(x).                      *)
(***************************************************************************)
EXTENDS Integers, Sequences, FiniteSets, TLC

VARIABLES store, last, db, req, nextSession

vars == <<store, last, db, req, nextSession>>

----------------------------------------------------------------------------
(* Bounds of the model *)

MaxIds == 3
MaxPage == 3
MaxTime == 2
MaxRequests == 2
MaxSessions == 3
MaxList == 2

Ids == 1..MaxIds
Times == 1..MaxTime
PageNumbers == 1..MaxPage
PageSizes == 1..MaxPage
Requests == 1..MaxRequests

UserIds == {"system", "admin"}

(* Program constants *)
DEFAULT_PAGE_NUMBER == 1
DEFAULT_PAGE_SIZE == 10

----------------------------------------------------------------------------
(* Optional values: None is the empty set, an entity e is {e} *)

None == {}
Some(x) == {x}

Min(a, b) == IF a < b THEN a ELSE b

----------------------------------------------------------------------------
(* Exceptions.  CrudUniqueValidationError <: CrudIntegrityError <: CrudError *)
(* <: Exception; sqlalchemy.exc.IntegrityError <: Exception.                  *)

CrudError == "CrudError"
CrudIntegrityError == "CrudIntegrityError"
CrudUniqueValidationError == "CrudUniqueValidationError"

(* the base class named in each class statement *)
Parent(c) ==
    CASE c = "CrudUniqueValidationError" -> "CrudIntegrityError"
      [] c = "CrudIntegrityError" -> "CrudError"
      [] c = "CrudError" -> "Exception"
      [] c = "IntegrityError" -> "Exception"
      [] OTHER -> "object"

RECURSIVE IsInstance(_, _)
IsInstance(c, base) ==
    IF c = base THEN TRUE
    ELSE IF c = "object" \/ c = "none" THEN FALSE
    ELSE IsInstance(Parent(c), base)

(* Classes of e.orig of an IntegrityError: the unique-violation class of   *)
(* the psycopg2 driver, the one of the asyncpg driver, any other error.     *)
Psycopg2UniqueViolation == "psycopg2.errors.UniqueViolation"
AsyncpgUniqueViolation == "asyncpg.exceptions.UniqueViolationError"
OtherOrig == "Exception"

Drivers == {"psycopg2", "asyncpg"}

UniqueOrig(driver) ==
    IF driver = "psycopg2" THEN Psycopg2UniqueViolation ELSE AsyncpgUniqueViolation

(* A fault of the store during a call: the class of the exception, the    *)
(* class of its orig and the statement it hits ("statement": the first     *)
(* statement of the method, "refetch": the _get_one that ends _update)     *)
NoFault == [cls |-> "none", orig |-> "none", at |-> "none"]
IntegrityFault(orig) == [cls |-> "IntegrityError", orig |-> orig, at |-> "statement"]
OtherFault == [cls |-> "Exception", orig |-> "none", at |-> "statement"]
RefetchFault == [cls |-> "Exception", orig |-> "none", at |-> "refetch"]

(* faults a read can meet, faults an INSERT can meet, faults _update can meet *)
ReadFaults == {NoFault, OtherFault}
WriteFaults == {NoFault, OtherFault, IntegrityFault(OtherOrig)}
UpdateFaults == WriteFaults \cup {RefetchFault}

----------------------------------------------------------------------------
(* Entities and models *)

EntityName == "UserEntity"
ModelName == "User"

UpdateFields == {"first_name", "last_name", "username", "email", "is_active"}

(* UserUpdate(): the value of every field that was not set *)
UserUpdateDefaults ==
    [first_name |-> "", last_name |-> "", username |-> "", email |-> "", is_active |-> TRUE]

(* to_user_entity, with the column defaults of BaseAuditEntity applied at INSERT *)
to_user_entity(model, user_id, new_id, now) ==
    [id |-> new_id,
     first_name |-> model.first_name,
     last_name |-> model.last_name,
     username |-> model.username,
     email |-> model.email,
     is_active |-> model.is_active,
     created_date |-> now,
     last_modified_date |-> now,
     created_by_user_id |-> user_id,
     last_modified_by_user_id |-> user_id]

(* the unique constraints of the table: primary key, username, email *)
Collides(t, row) ==
    \E r \in t : r.id # row.id /\ (r.username = row.username \/ r.email = row.email)

RowsById(t, entity_id) == {r \in t : r.id = entity_id}

----------------------------------------------------------------------------
(* Filters: each apply() adds one WHERE predicate to the statement *)

EqualsFilter(field, value) == [kind |-> "Equals", field |-> field, value |-> value]
NotEqualsFilter(field, value) == [kind |-> "NotEquals", field |-> field, value |-> value]
InFilter(field, value) == [kind |-> "In", field |-> field, value |-> value]

(* field.any(value) on an ARRAY column: value = ANY (field) *)
ArrayAny(array, value) == \E i \in 1..Len(array) : array[i] = value

(* what sqlalchemy's or_ makes of no clause at all: a clause list that    *)
(* renders nothing, so that where() restricts nothing (deprecated since    *)
(* 1.4), or an ArgumentError once the call is disallowed                   *)
EmptyOr == {"nothing", "ArgumentError"}

(* AnyFromListFilter.apply on one row: the conditions, one per value of   *)
(* the list, joined by or_ and added with where()                          *)
AnyFromListApply(array, value, empty_or) ==
    LET conditions == [i \in 1..Len(value) |-> ArrayAny(array, value[i])]
    IN  IF conditions = <<>>
        THEN [raised |-> empty_or = "ArgumentError", matches |-> empty_or = "nothing"]
        ELSE [raised |-> FALSE, matches |-> \E i \in 1..Len(conditions) : conditions[i]]

(* the predicate a filter adds, evaluated on one row *)
Matches(f, row) ==
    CASE f.kind = "Equals" -> row[f.field] = f.value
      [] f.kind = "NotEquals" -> row[f.field] # f.value
      [] f.kind = "In" -> row[f.field] \in f.value

(* the predicates joined by OR *)
MatchesAny(filters, row) == \E i \in 1..Len(filters) : Matches(filters[i], row)

(* statement.where(p1).where(p2)...: the predicates are joined by AND *)
MatchesAll(filters, row) == \A i \in 1..Len(filters) : Matches(filters[i], row)

----------------------------------------------------------------------------
(* Strings that are inspected character by character are sequences of      *)
(* one-character strings.                                                   *)

UpperChars == {"A", "B", "C", "D", "E", "F", "G", "H", "I", "J", "K", "L", "M",
               "N", "O", "P", "Q", "R", "S", "T", "U", "V", "W", "X", "Y", "Z"}
LowerChars == {"a", "b", "c", "d", "e", "f", "g", "h", "i", "j", "k", "l", "m",
               "n", "o", "p", "q", "r", "s", "t", "u", "v", "w", "x", "y", "z"}
DigitChars == {"0", "1", "2", "3", "4", "5", "6", "7", "8", "9"}

LowerOf == [A |-> "a", B |-> "b", C |-> "c", D |-> "d", E |-> "e", F |-> "f", G |-> "g", H |-> "h", I |-> "i", J |-> "j", K |-> "k", L |-> "l", M |-> "m", N |-> "n", O |-> "o", P |-> "p", Q |-> "q", R |-> "r", S |-> "s", T |-> "t", U |-> "u", V |-> "v", W |-> "w", X |-> "x", Y |-> "y", Z |-> "z"]

ToLowerChar(c) == IF c \in UpperChars THEN LowerOf[c] ELSE c

(* re.sub(r'([A-Z]+)([A-Z][a-z])', r'\1_\2', s) *)
RECURSIVE SplitAcronym(_, _)
SplitAcronym(s, i) ==
    IF i > Len(s) THEN <<>>
    ELSE (IF i > 1 /\ i < Len(s) /\ s[i-1] \in UpperChars /\ s[i] \in UpperChars /\ s[i+1] \in LowerChars
          THEN <<"_", s[i]>> ELSE <<s[i]>>) \o SplitAcronym(s, i + 1)

(* re.sub of a pair (left class)(right class) by left_right *)
RECURSIVE SplitPair(_, _, _, _)
SplitPair(s, i, left, right) ==
    IF i > Len(s) THEN <<>>
    ELSE (IF i > 1 /\ s[i-1] \in left /\ s[i] \in right
          THEN <<"_", s[i]>> ELSE <<s[i]>>) \o SplitPair(s, i + 1, left, right)

(* to_snake without the replacement of hyphens *)
to_snake_no_kebab(camel) ==
    LET s1 == SplitAcronym(camel, 1)
        s2 == SplitPair(s1, 1, LowerChars, UpperChars)
        s3 == SplitPair(s2, 1, DigitChars, UpperChars)
        s4 == SplitPair(s3, 1, LowerChars, DigitChars)
    IN  [i \in 1..Len(s4) |-> ToLowerChar(s4[i])]

(* pydantic.alias_generators.to_snake *)
to_snake(camel) ==
    LET s1 == SplitAcronym(camel, 1)
        s2 == SplitPair(s1, 1, LowerChars, UpperChars)
        s3 == SplitPair(s2, 1, DigitChars, UpperChars)
        s4 == SplitPair(s3, 1, LowerChars, DigitChars)
    IN  [i \in 1..Len(s4) |-> IF s4[i] = "-" THEN "_" ELSE ToLowerChar(s4[i])]

(* getattr(self.entity_type, name): the mapped column of that name, or     *)
(* None when the lookup raises AttributeError                               *)
EntityAttr(snake) ==
    CASE snake = <<"i", "d">> -> Some("id")
      [] snake = <<"f", "i", "r", "s", "t", "_", "n", "a", "m", "e">> -> Some("first_name")
      [] snake = <<"l", "a", "s", "t", "_", "n", "a", "m", "e">> -> Some("last_name")
      [] snake = <<"u", "s", "e", "r", "n", "a", "m", "e">> -> Some("username")
      [] snake = <<"e", "m", "a", "i", "l">> -> Some("email")
      [] snake = <<"i", "s", "_", "a", "c", "t", "i", "v", "e">> -> Some("is_active")
      [] snake = <<"c", "r", "e", "a", "t", "e", "d", "_", "d", "a", "t", "e">> -> Some("created_date")
      [] snake = <<"l", "a", "s", "t", "_", "m", "o", "d", "i", "f", "i", "e", "d", "_", "d", "a", "t", "e">> -> Some("last_modified_date")
      [] snake = <<"c", "r", "e", "a", "t", "e", "d", "_", "b", "y", "_", "u", "s", "e", "r", "_", "i", "d">> -> Some("created_by_user_id")
      [] snake = <<"l", "a", "s", "t", "_", "m", "o", "d", "i", "f", "i", "e", "d", "_", "b", "y", "_", "u", "s", "e", "r", "_", "i", "d">> -> Some("last_modified_by_user_id")
      [] OTHER -> None

----------------------------------------------------------------------------
(* Ordering of column values: strings by a fixed collation, FALSE < TRUE *)

Collation == <<"", "ea", "eb", "ec", "fa", "fb", "la", "lb", "ua", "ub", "uc", "admin", "system">>

IntColumns == {"id", "created_date", "last_modified_date"}
BoolColumns == {"is_active"}

Rank(row, key) ==
    IF key \in BoolColumns THEN (IF row[key] THEN 1 ELSE 0)
    ELSE IF key \in IntColumns THEN row[key]
    ELSE CHOOSE i \in 1..Len(Collation) : Collation[i] = row[key]

(* insert row x into the sorted sequence s after every row that does not   *)
(* have to come after it                                                    *)
RECURSIVE InsertSorted(_, _, _, _)
InsertSorted(s, x, key, descending) ==
    IF s = <<>> THEN <<x>>
    ELSE LET h == Head(s)
             before == IF descending THEN Rank(h, key) >= Rank(x, key)
                       ELSE Rank(h, key) <= Rank(x, key)
         IN  IF before THEN <<h>> \o InsertSorted(Tail(s), x, key, descending)
             ELSE <<x>> \o s

RECURSIVE OrderBy(_, _, _)
OrderBy(rows, key, descending) ==
    IF rows = <<>> THEN <<>>
    ELSE InsertSorted(OrderBy(SubSeq(rows, 1, Len(rows) - 1), key, descending),
                      rows[Len(rows)], key, descending)

(* the orders in which the store may return the rows of a table when the   *)
(* statement has no ORDER BY (or has ties): any permutation                  *)
Orderings(t) ==
    {s \in [1..Cardinality(t) -> t] : \A i, j \in 1..Cardinality(t) : i # j => s[i] # s[j]}

SeqToSet(s) == {s[i] : i \in 1..Len(s)}

----------------------------------------------------------------------------
(* Crud *)

Result(t, exc, msg, val) == [t |-> t, exc |-> exc, msg |-> msg, val |-> val]

(* an offset that counts pages from 0 *)
calculate_offset_from_zero(page_number, page_size) == page_number * page_size

calculate_offset(page_number, page_size) == (page_number - 1) * page_size

entity_exists(t, entity_id, fault) ==
    IF IsInstance(fault.cls, "Exception")
    THEN Result(t, CrudError,
                <<"Failed to check if entity {} with id {} exists", EntityName, entity_id>>, None)
    ELSE Result(t, "none", <<>>, RowsById(t, entity_id) # {})

(* exists() is built without the entity: its FROM clause comes from the   *)
(* columns of the where clauses only.  Without a filter the statement    *)
(* selects from no table, which the database rejects.                      *)
condition_exists(t, filters, fault) ==
    IF IsInstance(fault.cls, "Exception") \/ filters = <<>>
    THEN Result(t, CrudError,
                <<"Failed to check if entities {} exists for conditions {}", EntityName, filters>>, None)
    ELSE Result(t, "none", <<>>, \E r \in t : MatchesAll(filters, r))

(* _get_one with one_or_none() in place of one(): no row, no exception *)
get_one_or_none(t, entity_id, fault) ==
    IF IsInstance(fault.cls, "Exception")
    THEN Result(t, CrudError, <<"Failed to retrieve {} with id {}", EntityName, entity_id>>, None)
    ELSE Result(t, "none", <<>>, RowsById(t, entity_id))

(* scalars(stmt).unique().one(): NoResultFound when no row has the id *)
get_one(t, entity_id, fault) ==
    IF IsInstance(fault.cls, "Exception") \/ RowsById(t, entity_id) = {}
    THEN Result(t, CrudError, <<"Failed to retrieve {} with id {}", EntityName, entity_id>>, None)
    ELSE Result(t, "none", <<>>, RowsById(t, entity_id))

get_by_id(t, entity_id, with_for_update, fault) ==
    IF IsInstance(fault.cls, "Exception")
    THEN Result(t, CrudError, <<"Failed to retrieve {} with id {}", EntityName, entity_id>>, None)
    ELSE Result(t, "none", <<>>, RowsById(t, entity_id))

(* SELECT without FOR UPDATE whatever with_for_update is *)
RowLocksNone(with_for_update, rows) == {}

(* stmt.with_for_update(): the rows the SELECT returns are locked for the  *)
(* rest of the transaction when with_for_update is set                     *)
RowLocks(with_for_update, rows) ==
    IF with_for_update THEN {row.id : row \in rows} ELSE {}

(* `if sort_by`: None and the empty string are falsy *)
Truthy(sort_by) == sort_by # None /\ sort_by # Some(<<>>)

SortKey(sort_by) == EntityAttr(to_snake(CHOOSE s \in sort_by : TRUE))

(* _apply_params with the count taken from the paginated statement *)
apply_params_count_paginated(ord, page_number, page_size, omit_pagination, filters, sort_by, descending) ==
    LET where == IF filters # None /\ filters # Some(<<>>)
                 THEN CHOOSE f \in filters : TRUE ELSE <<>>
        selected == SelectSeq(ord, LAMBDA r : MatchesAll(where, r))
        offset == calculate_offset(page_number, page_size)
        page == IF omit_pagination THEN selected
                ELSE SubSeq(selected, offset + 1, Min(offset + page_size, Len(selected)))
    IN  [rows |-> page, count |-> Len(page), raised |-> Truthy(sort_by) /\ SortKey(sort_by) = None]

(* _apply_params with limit and offset applied whatever omit_pagination is *)
apply_params_always_paginated(ord, page_number, page_size, omit_pagination, filters, sort_by, descending) ==
    LET where == IF filters # None /\ filters # Some(<<>>)
                 THEN CHOOSE f \in filters : TRUE ELSE <<>>
        selected == SelectSeq(ord, LAMBDA r : MatchesAll(where, r))
        offset == calculate_offset(page_number, page_size)
    IN  [rows |-> SubSeq(selected, offset + 1, Min(offset + page_size, Len(selected))),
         count |-> Len(selected), raised |-> Truthy(sort_by) /\ SortKey(sort_by) = None]

(* The statements built by _apply_params, evaluated on the rows of the     *)
(* table in the order `ord` in which the store scans them: rows is the     *)
(* result of the data statement, count the result of the count statement,  *)
(* raised tells that getattr raised AttributeError.                         *)
apply_params(ord, page_number, page_size, omit_pagination, filters, sort_by, descending) ==
    LET where == IF filters # None /\ filters # Some(<<>>)
                 THEN CHOOSE f \in filters : TRUE ELSE <<>>
        selected == SelectSeq(ord, LAMBDA r : MatchesAll(where, r))
        sorting == Truthy(sort_by)
        raised == sorting /\ SortKey(sort_by) = None
        ordered == IF sorting /\ ~raised
                   THEN OrderBy(selected, CHOOSE k \in SortKey(sort_by) : TRUE, descending)
                   ELSE selected
        offset == calculate_offset(page_number, page_size)
        page == IF omit_pagination THEN ordered
                ELSE SubSeq(ordered, offset + 1, Min(offset + page_size, Len(ordered)))
    IN  [rows |-> page, count |-> Len(selected), raised |-> raised]

(* get_by_page that skips the ordering when sort_by names no attribute *)
get_by_page_lenient(t, ord, page_number, page_size, omit_pagination, filters, sort_by, descending, fault) ==
    LET q == apply_params(ord, page_number, page_size, omit_pagination, filters, sort_by, descending)
    IN  IF IsInstance(fault.cls, "Exception")
        THEN Result(t, CrudError,
                    <<"Failed to retrieve multiple entities {} with params: {}, {} {}",
                      EntityName, page_number, page_size, omit_pagination>>, None)
        ELSE Result(t, "none", <<>>, <<q.rows, q.count>>)

get_by_page(t, ord, page_number, page_size, omit_pagination, filters, sort_by, descending, fault) ==
    LET q == apply_params(ord, page_number, page_size, omit_pagination, filters, sort_by, descending)
    IN  IF IsInstance(fault.cls, "Exception") \/ q.raised
        THEN Result(t, CrudError,
                    <<"Failed to retrieve multiple entities {} with params: {}, {} {}",
                      EntityName, page_number, page_size, omit_pagination>>, None)
        ELSE Result(t, "none", <<>>, <<q.rows, q.count>>)

(* _create without session.add: nothing is inserted *)
create_inner_not_added(t, create_model, new_id, user_id, now, fault, driver) ==
    [e |-> fault, entity |-> to_user_entity(create_model, user_id, new_id, now), t |-> t]

(* _create: mapper, session.add, session.flush.  Gives the exception that  *)
(* leaves _create (NoFault when it returns) and the new entity.             *)
create_inner(t, create_model, new_id, user_id, now, fault, driver) ==
    LET new_entity == to_user_entity(create_model, user_id, new_id, now)
        violated == RowsById(t, new_id) # {} \/ Collides(t, new_entity)
        e == IF fault # NoFault THEN fault
             ELSE IF violated THEN IntegrityFault(UniqueOrig(driver))
             ELSE NoFault
    IN  [e |-> e, entity |-> new_entity, t |-> IF e = NoFault THEN t \cup {new_entity} ELSE t]

(* the except clauses re-raising the store's exception as it is *)
TranslateWriteErrorReraise(e, integrity_msg, msg) ==
    [exc |-> e.cls, msg |-> msg]

(* the except clauses shared by create and update *)
TranslateWriteError(e, integrity_msg, msg) ==
    IF IsInstance(e.cls, "IntegrityError")
    THEN IF e.orig = Psycopg2UniqueViolation
         THEN [exc |-> CrudUniqueValidationError, msg |-> integrity_msg]
         ELSE [exc |-> CrudIntegrityError, msg |-> integrity_msg]
    ELSE [exc |-> CrudError, msg |-> msg]

create(t, create_model, new_id, user_id, now, fault, driver) ==
    LET c == create_inner(t, create_model, new_id, user_id, now, fault, driver)
        x == TranslateWriteError(c.e,
                 <<"Failed to create new entity {} with params: {} due to IntegrityError",
                   EntityName, create_model>>,
                 <<"Failed to create new entity {} with params: {}", EntityName, create_model>>)
    IN  IF c.e = NoFault THEN Result(c.t, "none", <<>>, Some(c.entity))
        ELSE Result(t, x.exc, x.msg, None)

(* update_model.model_dump(): every field, set or not *)
model_dump_all(update_model) == UpdateFields

(* update_model.model_dump(exclude_unset=True): the fields that were set *)
model_dump_exclude_unset(update_model) == update_model.fields_set

(* an UPDATE that stamps the creation audit fields as well *)
UpdatedRowRestamped(row, update_model, user_id, now) ==
    [f \in DOMAIN row |->
        IF f \in model_dump_exclude_unset(update_model) THEN update_model.values[f]
        ELSE IF f \in {"last_modified_by_user_id", "created_by_user_id"} THEN user_id
        ELSE IF f \in {"last_modified_date", "created_date"} THEN now
        ELSE row[f]]

(* the row after UPDATE ... SET last_modified_by_user_id, <dumped fields>, *)
(* with onupdate=utc_now on last_modified_date                              *)
UpdatedRow(row, update_model, user_id, now) ==
    [f \in DOMAIN row |->
        IF f \in model_dump_exclude_unset(update_model) THEN update_model.values[f]
        ELSE IF f = "last_modified_by_user_id" THEN user_id
        ELSE IF f = "last_modified_date" THEN now
        ELSE row[f]]

(* _update: the UPDATE statement, flush and the re-fetch by _get_one.     *)
(* A fault of the UPDATE or a violated unique constraint leaves the table  *)
(* as it was; a failing re-fetch comes after the UPDATE was executed.      *)
update_inner(t, entity_id, update_model, user_id, now, fault, driver) ==
    LET old == RowsById(t, entity_id)
        new == {UpdatedRow(r, update_model, user_id, now) : r \in old}
        violated == \E r \in new : Collides(t, r)
        t2 == (t \ old) \cup new
        refetch == get_one(t2, entity_id, IF fault.at = "refetch" THEN fault ELSE NoFault)
        e == IF fault.at = "statement" THEN fault
             ELSE IF violated THEN IntegrityFault(UniqueOrig(driver))
             ELSE IF refetch.exc # "none" THEN [cls |-> refetch.exc, orig |-> "none", at |-> "refetch"]
             ELSE NoFault
    IN  [e |-> e, entity |-> new, t |-> IF fault.at = "statement" \/ violated THEN t ELSE t2]

update(t, entity_id, update_model, user_id, now, fault, driver) ==
    LET u == update_inner(t, entity_id, update_model, user_id, now, fault, driver)
        x == TranslateWriteError(u.e,
                 <<"Failed to update entity {} {} with params: {} due to IntegrityError",
                   EntityName, entity_id, update_model>>,
                 <<"Failed to update entity {} {} with params: {}", EntityName, entity_id, update_model>>)
    IN  IF u.e = NoFault THEN Result(u.t, "none", <<>>, u.entity)
        ELSE Result(u.t, x.exc, x.msg, None)

(* delete that looks the row up first and fails when there is none *)
delete_checked(t, entity_id, fault) ==
    IF IsInstance(fault.cls, "Exception") \/ RowsById(t, entity_id) = {}
    THEN Result(t, CrudError, <<"Failed to delete entity {} {}", EntityName, entity_id>>, None)
    ELSE Result(t \ RowsById(t, entity_id), "none", <<>>, None)

delete(t, entity_id, fault) ==
    IF IsInstance(fault.cls, "Exception")
    THEN Result(t, CrudError, <<"Failed to delete entity {} {}", EntityName, entity_id>>, None)
    ELSE Result(t \ RowsById(t, entity_id), "none", <<>>, None)

(* condition_delete that issues no statement for an empty filter sequence *)
condition_delete_guarded(t, filters, fault) ==
    IF IsInstance(fault.cls, "Exception")
    THEN Result(t, CrudError, <<"Failed to delete entities {} for conditions {}", EntityName, filters>>, None)
    ELSE IF filters = <<>> THEN Result(t, "none", <<>>, None)
    ELSE Result({r \in t : ~MatchesAll(filters, r)}, "none", <<>>, None)

(* condition_delete whose statement lacks the where clauses *)
condition_delete_unfiltered(t, filters, fault) ==
    IF IsInstance(fault.cls, "Exception")
    THEN Result(t, CrudError, <<"Failed to delete entities {} for conditions {}", EntityName, filters>>, None)
    ELSE Result({}, "none", <<>>, None)

condition_delete(t, filters, fault) ==
    IF IsInstance(fault.cls, "Exception")
    THEN Result(t, CrudError, <<"Failed to delete entities {} for conditions {}", EntityName, filters>>, None)
    ELSE Result({r \in t : ~MatchesAll(filters, r)}, "none", <<>>, None)

----------------------------------------------------------------------------
(* BaseService / UserService *)

NotFound == "NotFound"
BadRequest == "BadRequest"
Conflict == "Conflict"
InternalError == "InternalError"

ErrorStatus == {NotFound, BadRequest, Conflict, InternalError}

GET_BY_ID_NOT_FOUND_MSG == "{model_class} with id {id} not found"
CREATE_UNIQUE_VALIDATION_MSG == "{model_class} with given username or email already exists"
UPDATE_UNIQUE_VALIDATION_MSG == "{model_class} with given username or email already exists"

Ok(value) == [kind |-> "Ok", value |-> value]
Err(status, details) == [kind |-> "Err", status |-> status, details |-> details]

(* what a service method hands to its caller: the outcome it returns, or   *)
(* the exception that propagates out of it; calls lists the Crud methods   *)
(* it invoked, in order, with the exception each one raised                 *)
Returned(t, out, calls) == [t |-> t, out |-> out, raised |-> "none", calls |-> calls]
Propagated(t, exc, calls) == [t |-> t, out |-> [kind |-> "none"], raised |-> exc, calls |-> calls]

Call(name, r) == [name |-> name, exc |-> r.exc, msg |-> r.msg]

error_response(details, status) == Err(status, details)

not_found_error_response(details) == error_response(details, NotFound)

NotFoundDetails(entity_id) == <<GET_BY_ID_NOT_FOUND_MSG, ModelName, entity_id>>

build_create_crud_unique_validation_error_msg ==
    <<"Failed to create new {model_class} - ", CREATE_UNIQUE_VALIDATION_MSG, ModelName>>

build_update_crud_unique_validation_error_msg(entity_id) ==
    <<"Failed to update {model_class} with id {id} - ", UPDATE_UNIQUE_VALIDATION_MSG, ModelName, entity_id>>

(* BaseAudit.add_missing_timezone *)
add_missing_timezone(v) == [ts |-> v, tzinfo |-> "UTC"]

(* User.model_validate(entity), from_attributes=True *)
model_validate(e) ==
    [f \in DOMAIN e |->
        IF f \in {"created_date", "last_modified_date"} THEN add_missing_timezone(e[f]) ELSE e[f]]

(* an except clause that names CrudIntegrityError instead of CrudException *)
OnCrudExceptionNarrow(r, calls) ==
    IF IsInstance(r.exc, CrudIntegrityError)
    THEN Returned(r.t, error_response(r.msg, InternalError), calls)
    ELSE Propagated(r.t, r.exc, calls)

(* `except CrudException`: the handler shared by every service method *)
OnCrudException(r, calls) ==
    IF IsInstance(r.exc, CrudError)
    THEN Returned(r.t, error_response(r.msg, InternalError), calls)
    ELSE Propagated(r.t, r.exc, calls)

(* `except CrudException` placed before `except CrudUniqueValidationError` *)
OnWriteExceptionShadowed(r, conflict_details, calls) ==
    IF IsInstance(r.exc, CrudError)
    THEN Returned(r.t, error_response(r.msg, InternalError), calls)
    ELSE IF IsInstance(r.exc, CrudUniqueValidationError)
    THEN Returned(r.t, error_response(conflict_details, Conflict), calls)
    ELSE Propagated(r.t, r.exc, calls)

(* `except CrudUniqueValidationError` placed before `except CrudException` *)
OnWriteException(r, conflict_details, calls) ==
    IF IsInstance(r.exc, CrudUniqueValidationError)
    THEN Returned(r.t, error_response(conflict_details, Conflict), calls)
    ELSE OnCrudException(r, calls)

svc_get_page(t, ord, page_number, page_size, omit_pagination, filters, sort_by, descending, fault) ==
    LET r == get_by_page(t, ord, page_number, page_size, omit_pagination, filters, sort_by, descending, fault)
        calls == <<Call("get_by_page", r)>>
    IN  IF r.exc # "none" THEN OnCrudException(r, calls)
        ELSE Returned(r.t, Ok([items |-> [i \in 1..Len(r.val[1]) |-> model_validate(r.val[1][i])],
                               total |-> r.val[2]]), calls)

(* get_page that tests `if is_active:` instead of `is not None` *)
user_get_page_truthy(t, ord, page_number, page_size, omit_pagination, is_active, sort_by, descending, fault) ==
    LET filters == IF is_active = Some(TRUE) THEN <<EqualsFilter("is_active", TRUE)>> ELSE <<>>
    IN  svc_get_page(t, ord, page_number, page_size, omit_pagination, Some(filters), sort_by, descending, fault)

(* UserService.get_page: is_active is None ({}), or {TRUE}, or {FALSE} *)
user_get_page(t, ord, page_number, page_size, omit_pagination, is_active, sort_by, descending, fault) ==
    LET filters == IF is_active # None
                   THEN <<EqualsFilter("is_active", CHOOSE b \in is_active : TRUE)>>
                   ELSE <<>>
    IN  svc_get_page(t, ord, page_number, page_size, omit_pagination, Some(filters), sort_by, descending, fault)

svc_get_by_id(t, entity_id, with_for_update, fault) ==
    LET r == get_by_id(t, entity_id, with_for_update, fault)
        calls == <<Call("get_by_id", r)>>
    IN  IF r.exc # "none" THEN OnCrudException(r, calls)
        ELSE IF r.val = None
             THEN Returned(r.t, not_found_error_response(NotFoundDetails(entity_id)), calls)
        ELSE Returned(r.t, Ok(model_validate(CHOOSE e \in r.val : TRUE)), calls)

svc_create(t, model, new_id, user_id, now, fault, driver) ==
    LET r == create(t, model, new_id, user_id, now, fault, driver)
        calls == <<Call("create", r)>>
    IN  IF r.exc # "none"
        THEN OnWriteException(r, build_create_crud_unique_validation_error_msg, calls)
        ELSE Returned(r.t, Ok(model_validate(CHOOSE e \in r.val : TRUE)), calls)

(* update without the existence check *)
svc_update_unchecked(t, entity_id, model, user_id, now, fault1, fault2, driver) ==
    LET r == update(t, entity_id, model, user_id, now, fault2, driver)
        calls == <<Call("update", r)>>
    IN  IF r.exc # "none"
        THEN Returned(r.t, error_response(r.msg, InternalError), calls)
        ELSE Returned(r.t, Ok(model_validate(CHOOSE e \in r.val : TRUE)), calls)

svc_update(t, entity_id, model, user_id, now, fault1, fault2, driver) ==
    LET x == entity_exists(t, entity_id, fault1)
        r == update(x.t, entity_id, model, user_id, now, fault2, driver)
        first == <<Call("entity_exists", x)>>
        both == <<Call("entity_exists", x), Call("update", r)>>
    IN  IF x.exc # "none" THEN OnCrudException(x, first)
        ELSE IF ~x.val
             THEN Returned(x.t, not_found_error_response(NotFoundDetails(entity_id)), first)
        ELSE IF r.exc # "none"
             THEN OnWriteException(r, build_update_crud_unique_validation_error_msg(entity_id), both)
        ELSE Returned(r.t, Ok(model_validate(CHOOSE e \in r.val : TRUE)), both)

(* delete without the existence check *)
svc_delete_unchecked(t, entity_id, fault1, fault2) ==
    LET r == delete(t, entity_id, fault2)
        calls == <<Call("delete", r)>>
    IN  IF r.exc # "none" THEN OnCrudException(r, calls)
        ELSE Returned(r.t, Ok(None), calls)

svc_delete(t, entity_id, fault1, fault2) ==
    LET x == entity_exists(t, entity_id, fault1)
        r == delete(x.t, entity_id, fault2)
        first == <<Call("entity_exists", x)>>
        both == <<Call("entity_exists", x), Call("delete", r)>>
    IN  IF x.exc # "none" THEN OnCrudException(x, first)
        ELSE IF ~x.val
             THEN Returned(x.t, not_found_error_response(NotFoundDetails(entity_id)), first)
        ELSE IF r.exc # "none" THEN OnCrudException(r, both)
        ELSE Returned(r.t, Ok(None), both)

svc_entity_exists(t, entity_id, fault) ==
    LET x == entity_exists(t, entity_id, fault)
        calls == <<Call("entity_exists", x)>>
    IN  IF x.exc # "none" THEN OnCrudException(x, calls)
        ELSE IF ~x.val
             THEN Returned(x.t, not_found_error_response(NotFoundDetails(entity_id)), calls)
        ELSE Returned(x.t, Ok(None), calls)

----------------------------------------------------------------------------
(* Inputs of the operations *)

CreateModel(first_name, last_name, username, email, is_active) ==
    [first_name |-> first_name, last_name |-> last_name, username |-> username,
     email |-> email, is_active |-> is_active]

(* A UserUpdate built from the given fields: fields_set is                 *)
(* model_fields_set, values holds the                                       *)
(* given values and the class defaults of the other fields                  *)
UpdateModel(given) ==
    [fields_set |-> DOMAIN given,
     values |-> [f \in UpdateFields |-> IF f \in DOMAIN given THEN given[f] ELSE UserUpdateDefaults[f]]]

CreateModels ==
    {CreateModel("fa", "la", "ua", "ea", TRUE),
     CreateModel("fa", "la", "ub", "eb", FALSE),
     CreateModel("fa", "la", "ua", "eb", TRUE)}

UpdateModels ==
    {UpdateModel([first_name |-> "fb"]),
     UpdateModel([username |-> "ub"]),
     UpdateModel([is_active |-> FALSE, email |-> "eb"]),
     UpdateModel(<<>>)}

(* who calls and when: the user id handed to the call and the value of     *)
(* utc_now during it                                                        *)
Contexts ==
    {[user_id |-> IF n % 2 = 1 THEN "system" ELSE "admin", now |-> n] : n \in Times}

(* the routers' caller: current_user_id = "system", at one instant *)
RouterContexts == {[user_id |-> "system", now |-> 1]}

FilterSeqs ==
    {<<>>,
     <<EqualsFilter("is_active", TRUE)>>,
     <<EqualsFilter("first_name", "fa"), NotEqualsFilter("username", "ub")>>,
     <<InFilter("email", {"ea", "eb"}), EqualsFilter("is_active", FALSE)>>}

(* filters argument of get_by_page: None or a sequence *)
FilterArgs == {None} \cup {Some(f) : f \in FilterSeqs}

SortBys ==
    {None, Some(<<>>),
     Some(<<"u", "s", "e", "r", "n", "a", "m", "e">>),
     Some(<<"i", "s", "A", "c", "t", "i", "v", "e">>),
     Some(<<"n", "o", "p", "e">>)}

IsActiveArgs == {None, Some(TRUE), Some(FALSE)}

---------------------------------------------------------------------------------------------------------------------------------------------------
(* One session and one caller.  The caller is idle between two calls; a    *)
(* call leaves its arguments and what it returned or raised in `last`, and  *)
(* the caller takes the result before it makes the next call.               *)

Idle == [op |-> "idle"]

HTTPException(status_code, detail) ==
    [cls |-> "HTTPException", status_code |-> status_code, detail |-> detail]

(* a request slot before get_db: no session, no transaction, no handler.  *)
(* exc is the class of the exception the handler left with, wrote tells    *)
(* whether its transaction executed a write, read is the last get_by_id    *)
(* of the transaction and locked the ids of the rows it holds locked       *)
NoRead == [id |-> 0, with_for_update |-> FALSE, val |-> {}]

(* no page listed: the rows of the data statement, the result of the count *)
(* statement and the arguments of the call                                  *)
NoPage == [rows |-> <<>>, total |-> 0, omit_pagination |-> FALSE, page_size |-> 0]

NoRequest ==
    [pc |-> "idle", session |-> 0, open |-> FALSE, tx |-> "none", handler |-> "none",
     used |-> {}, upserts |-> {}, deleted |-> {}, wrote |-> FALSE, exc |-> "none", status_code |-> 0,
     read |-> NoRead, locked |-> {}, model |-> UpdateModel(<<>>), listed |-> NoPage]

Init ==
    /\ store = {}
    /\ last = Idle
    /\ db = {}
    /\ req = [r \in Requests |-> NoRequest]
    /\ nextSession = 1

Frame == UNCHANGED <<db, req, nextSession>>

Return ==
    /\ last # Idle
    /\ last' = Idle
    /\ UNCHANGED store
    /\ Frame

CrudRecord(op, args, r) == [op |-> op, args |-> args, exc |-> r.exc, msg |-> r.msg, val |-> r.val]

CrudEntityExists ==
    /\ last = Idle
    /\ \E id \in Ids, fault \in ReadFaults :
        LET r == entity_exists(store, id, fault)
        IN  /\ store' = r.t
            /\ last' = CrudRecord("Crud.entity_exists", [id |-> id, fault |-> fault], r)
    /\ Frame

CrudConditionExists ==
    /\ last = Idle
    /\ \E filters \in FilterSeqs, fault \in ReadFaults :
        LET r == condition_exists(store, filters, fault)
        IN  /\ store' = r.t
            /\ last' = CrudRecord("Crud.condition_exists", [filters |-> filters, fault |-> fault], r)
    /\ Frame

CrudGetById ==
    /\ last = Idle
    /\ \E id \in Ids, with_for_update \in BOOLEAN, fault \in ReadFaults :
        LET r == get_by_id(store, id, with_for_update, fault)
        IN  /\ store' = r.t
            /\ last' = CrudRecord("Crud.get_by_id", [id |-> id, with_for_update |-> with_for_update], r)
    /\ Frame

CrudGetByPageWith(page_numbers, page_sizes, filter_args, sort_bys) ==
    /\ last = Idle
    /\ \E ord \in Orderings(store), page_number \in page_numbers, page_size \in page_sizes,
          omit_pagination \in BOOLEAN, filters \in filter_args, sort_by \in sort_bys,
          descending \in BOOLEAN, fault \in ReadFaults :
        LET r == get_by_page(store, ord, page_number, page_size, omit_pagination,
                             filters, sort_by, descending, fault)
        IN  /\ store' = r.t
            /\ last' = CrudRecord("Crud.get_by_page",
                                  [page_number |-> page_number, page_size |-> page_size,
                                   omit_pagination |-> omit_pagination, filters |-> filters,
                                   sort_by |-> sort_by, descending |-> descending], r)
    /\ Frame

CrudCreateWith(models, contexts, faults) ==
    /\ last = Idle
    /\ \E model \in models, new_id \in Ids, c \in contexts, fault \in faults, driver \in Drivers :
        LET r == create(store, model, new_id, c.user_id, c.now, fault, driver)
        IN  /\ store' = r.t
            /\ last' = CrudRecord("Crud.create",
                                  [model |-> model, new_id |-> new_id, user_id |-> c.user_id,
                                   now |-> c.now, fault |-> fault, driver |-> driver], r)
    /\ Frame

CrudUpdate ==
    /\ last = Idle
    /\ \E id \in Ids, model \in UpdateModels, c \in Contexts,
          fault \in UpdateFaults, driver \in Drivers :
        LET r == update(store, id, model, c.user_id, c.now, fault, driver)
        IN  /\ store' = r.t
            /\ last' = CrudRecord("Crud.update",
                                  [id |-> id, model |-> model, user_id |-> c.user_id, now |-> c.now,
                                   fault |-> fault, driver |-> driver], r)
    /\ Frame

CrudDelete ==
    /\ last = Idle
    /\ \E id \in Ids, fault \in ReadFaults :
        LET r == delete(store, id, fault)
        IN  /\ store' = r.t
            /\ last' = CrudRecord("Crud.delete", [id |-> id, fault |-> fault], r)
    /\ Frame

CrudConditionDelete ==
    /\ last = Idle
    /\ \E filters \in FilterSeqs, fault \in ReadFaults :
        LET r == condition_delete(store, filters, fault)
        IN  /\ store' = r.t
            /\ last' = CrudRecord("Crud.condition_delete", [filters |-> filters, fault |-> fault], r)
    /\ Frame

CrudCreate == CrudCreateWith(CreateModels, RouterContexts, WriteFaults)

CrudGetByPage ==
    CrudGetByPageWith({DEFAULT_PAGE_NUMBER}, {1, DEFAULT_PAGE_SIZE}, {None, Some(<<>>)}, {None})

Next ==
    \/ CrudEntityExists
    \/ CrudConditionExists
    \/ CrudGetById
    \/ CrudGetByPage
    \/ CrudCreate
    \/ CrudUpdate
    \/ CrudDelete
    \/ CrudConditionDelete
    \/ Return

Spec == Init /\ [][Next]_vars

---------------------------------------------------------------------------------------------------------------------------------------------------
(* Properties of the Crud calls *)

LastModifiedFields == {"last_modified_by_user_id", "last_modified_date"}

Updated == last.op = "Crud.update" /\ last.exc = "none"

(* the step of a Crud.update call that returned: before it the caller is   *)
(* idle and `store` is the table the call started from                      *)
UpdateStep == last = Idle /\ last'.op = "Crud.update" /\ last'.exc = "none"

(* C3: an update that returns changes, in the row with the given id, the   *)
(* fields set in the update model (to the model's values) and the two      *)
(* last-modified audit fields; every other field of that row keeps its     *)
(* prior value and every other row is unchanged.                           *)
C3_PartialUpdate ==
    [][UpdateStep =>
        LET a == last'.args
        IN  /\ {r.id : r \in store'} = {r.id : r \in store}
            /\ \A old \in store : \A new \in store' :
                 new.id = old.id =>
                    IF old.id # a.id THEN new = old
                    ELSE \A f \in DOMAIN old :
                            IF f \in a.model.fields_set THEN new[f] = a.model.values[f]
                            ELSE IF f = "last_modified_by_user_id" THEN new[f] = a.user_id
                            ELSE IF f = "last_modified_date" THEN new[f] = a.now
                            ELSE new[f] = old[f]]_vars

C3_Witness ==
    /\ Updated
    /\ last.args.model.fields_set = {"first_name"}
    /\ Cardinality(store) >= 2
    /\ \E r \in store :
        /\ r.id = last.args.id
        /\ r.first_name = "fb"
        /\ ~r.is_active
        /\ r.username # "" /\ r.email # "" /\ r.last_name # ""
        /\ r.last_modified_by_user_id # r.created_by_user_id
        /\ r.last_modified_date # r.created_date

(* C4: after a create that returned, get_by_id with the id of the returned *)
(* entity yields that entity; after a delete that returned, get_by_id with *)
(* the deleted id yields None.                                             *)
C4_CreateGetDelete ==
    /\ (last.op = "Crud.create" /\ last.exc = "none") =>
          \A e \in last.val : \A with_for_update \in BOOLEAN :
              LET g == get_by_id(store, e.id, with_for_update, NoFault)
              IN  g.exc = "none" /\ g.val = Some(e)
    /\ (last.op = "Crud.delete" /\ last.exc = "none") =>
          \A with_for_update \in BOOLEAN :
              LET g == get_by_id(store, last.args.id, with_for_update, NoFault)
              IN  g.exc = "none" /\ g.val = None

C4_Witness ==
    /\ last.op = "Crud.create" /\ last.exc = "none"
    /\ last.val # None
    /\ Cardinality(store) >= 2
    /\ \E e \in last.val : e.id = last.args.new_id /\ e \in store

(* C5: a uniqueness violation reported by the store during create makes    *)
(* create fail with CrudUniqueValidationError, any other constraint         *)
(* violation with a CrudIntegrityError that is not a                        *)
(* CrudUniqueValidationError, any other fault with a plain CrudError.       *)
C5_CreateErrors ==
    (last.op = "Crud.create" /\ last.exc # "none") =>
        CASE last.args.fault = NoFault -> last.exc = CrudUniqueValidationError
          [] last.args.fault = IntegrityFault(OtherOrig) -> last.exc = CrudIntegrityError
          [] OTHER -> last.exc = CrudError

ConditionDeleted == last.op = "Crud.condition_delete"

(* C16: a condition_delete during which the store raises nothing returns  *)
(* without error, removes the stored rows that satisfy each filter of the  *)
(* sequence and no other row, and leaves the rows it keeps as they were;   *)
(* when no row satisfies each filter the store is unchanged.               *)
C16_ConditionDelete ==
    [][(last = Idle /\ ConditionDeleted' /\ last'.args.fault = NoFault) =>
          LET fs == last'.args.filters
              hit == {r \in store : \A i \in 1..Len(fs) : Matches(fs[i], r)}
          IN  /\ last'.exc = "none"
              /\ store' = store \ hit
              /\ hit = {} => store' = store]_vars

(* after a condition_delete with two filters: rows are left, none of them *)
(* satisfies both filters, one of them satisfies the first filter          *)
C16_Witness ==
    /\ ConditionDeleted /\ last.exc = "none"
    /\ Len(last.args.filters) = 2
    /\ store # {}
    /\ \A r \in store : \E i \in 1..2 : ~Matches(last.args.filters[i], r)
    /\ \E r \in store : Matches(last.args.filters[1], r)

CreationFields == {"id", "created_date", "created_by_user_id"}

(* every row stored after a step was stored before it with the same id,   *)
(* created_date and created_by_user_id, or is the row a create of this     *)
(* step made, with the id, the instant and the user id of that call        *)
CreationKept ==
    \A new \in store' :
        \/ \E old \in store : \A f \in CreationFields : old[f] = new[f]
        \/ /\ last'.op = "Crud.create"
           /\ new.id = last'.args.new_id
           /\ new.created_date = last'.args.now
           /\ new.created_by_user_id = last'.args.user_id

(* the fields in which a returned update changed the row of its id are    *)
(* fields of the update model or the two last-modified fields, and         *)
(* last_modified_by_user_id is the given user id                           *)
UpdateTouches ==
    UpdateStep =>
        \A old \in store : \A new \in store' :
            (old.id = last'.args.id /\ new.id = old.id) =>
                /\ {f \in DOMAIN old : new[f] # old[f]}
                       \subseteq last'.args.model.fields_set \cup LastModifiedFields
                /\ new.last_modified_by_user_id = last'.args.user_id

(* C21: over every sequence of create, update, delete and condition_delete *)
(* calls each stored row keeps the id, created_date and created_by_user_id *)
(* it was created with, and an update changes only the fields of its       *)
(* update model, last_modified_by_user_id (to the given user id) and       *)
(* last_modified_date.                                                     *)
C21_CreationFieldsKept == [][CreationKept /\ UpdateTouches]_vars

(* a row created by "system" at instant 1, updated by "admin" later *)
C21_Witness ==
    /\ Updated
    /\ last.args.user_id = "admin"
    /\ \E r \in store :
          /\ r.id = last.args.id
          /\ r.created_by_user_id = "system" /\ r.created_date = 1
          /\ r.last_modified_by_user_id = "admin" /\ r.last_modified_date = last.args.now
          /\ r.last_modified_date # r.created_date
    /\ Cardinality(store) >= 2

(* a Crud.update call with an id no stored row has *)
UpdateOfAbsent ==
    /\ last = Idle
    /\ last'.op = "Crud.update"
    /\ \A r \in store : r.id # last'.args.id

UpdateOfAbsentFails ==
    UpdateOfAbsent =>
        /\ last'.exc # "none"
        /\ IsInstance(last'.exc, CrudError)
        /\ last'.val = None
        /\ store' = store
        /\ last'.args.fault = NoFault =>
              /\ last'.exc = CrudError
              /\ last'.msg = <<"Failed to update entity {} {} with params: {}",
                               EntityName, last'.args.id, last'.args.model>>

(* C24: Crud.update with an id that has no stored row changes and creates *)
(* no row and returns nothing: it fails with CrudError (the plain class    *)
(* when the store raises no fault, the failure being that of the re-fetch).*)
C24_UpdateAbsent == [][UpdateOfAbsentFails]_vars

(* a failed update of an absent id that sets a field, on a table with rows, *)
(* while the store raised nothing                                           *)
C24_Witness ==
    /\ last.op = "Crud.update"
    /\ last.args.fault = NoFault
    /\ last.exc = CrudError
    /\ last.args.model.fields_set # {}
    /\ Cardinality(store) >= 2
    /\ \A r \in store : r.id # last.args.id

NoFilters == {None, Some(<<>>)}

(* the number of rows of page page_number of a list of n rows *)
PageLen(n, page_number, page_size) ==
    LET offset == calculate_offset(page_number, page_size)
    IN  IF n <= offset THEN 0 ELSE Min(page_size, n - offset)

DeletesAll ==
    (last = Idle /\ ConditionDeleted' /\ last'.args.fault = NoFault /\ last'.args.filters = <<>>) =>
        last'.exc = "none" /\ store' = {}

ListsAll ==
    (last = Idle /\ last'.op = "Crud.get_by_page" /\ last'.exc = "none"
                /\ last'.args.filters \in NoFilters) =>
        LET rows == last'.val[1]
            a == last'.args
        IN  /\ last'.val[2] = Cardinality(store)
            /\ {rows[i] : i \in 1..Len(rows)} \subseteq store
            /\ \A i, j \in 1..Len(rows) : rows[i] = rows[j] => i = j
            /\ Len(rows) = IF a.omit_pagination THEN Cardinality(store)
                           ELSE PageLen(Cardinality(store), a.page_number, a.page_size)

(* C29: condition_delete called with an empty filter sequence deletes      *)
(* every stored row, and get_by_page called with an empty or absent filter *)
(* sequence counts every stored row and returns every one of them (all of  *)
(* them with omit_pagination, the requested page of all of them otherwise) *)
C29_EmptyFilters == [][DeletesAll /\ ListsAll]_vars

C29_Witness ==
    /\ last.op = "Crud.get_by_page" /\ last.exc = "none"
    /\ last.args.filters = Some(<<>>) /\ last.args.omit_pagination
    /\ Cardinality(store) >= 2
    /\ Len(last.val[1]) = Cardinality(store) /\ last.val[2] = Cardinality(store)

Deleted == last.op = "Crud.delete"

(* C19: a delete during which the store raises nothing returns without    *)
(* error; with an id no stored row has it leaves the store unchanged, with *)
(* the id of a stored row it removes that row and no other.                *)
C19_Delete ==
    [][(last = Idle /\ Deleted' /\ last'.args.fault = NoFault) =>
          LET row == {r \in store : r.id = last'.args.id}
          IN  /\ last'.exc = "none"
              /\ row = {} => store' = store
              /\ row # {} => /\ Cardinality(row) = 1
                             /\ store' = store \ row
                             /\ Cardinality(store') = Cardinality(store) - 1]_vars

(* after a delete that returned: other rows are stored, none has the id *)
C19_Witness ==
    /\ Deleted /\ last.exc = "none"
    /\ Cardinality(store) >= 2
    /\ \A r \in store : r.id # last.args.id

(* C17: condition_exists returns true when at least one stored row        *)
(* satisfies each filter of the sequence and false otherwise, for every    *)
(* filter sequence and every table; entity_exists returns true exactly     *)
(* when a row with the id is stored.  Calls during which the store raises  *)
(* nothing are meant.                                                      *)
C17_Exists ==
    /\ (last.op = "Crud.condition_exists" /\ last.args.fault = NoFault) =>
          /\ last.exc = "none"
          /\ last.val = (\E r \in store :
                            \A i \in 1..Len(last.args.filters) : Matches(last.args.filters[i], r))
    /\ (last.op = "Crud.entity_exists" /\ last.args.fault = NoFault) =>
          /\ last.exc = "none"
          /\ last.val = (\E r \in store : r.id = last.args.id)

CrudOps ==
    {"Crud.entity_exists", "Crud.condition_exists", "Crud.get_by_id", "Crud.get_by_page",
     "Crud.create", "Crud.update", "Crud.delete", "Crud.condition_delete"}

(* C9: whatever fails inside a Crud method, the exception that reaches the *)
(* caller is CrudError, CrudIntegrityError or CrudUniqueValidationError,   *)
(* each an instance of CrudError, with CrudUniqueValidationError a subtype *)
(* of CrudIntegrityError and CrudIntegrityError a subtype of CrudError.    *)
C9_OnlyCrudErrors ==
    /\ IsInstance(CrudUniqueValidationError, CrudIntegrityError)
    /\ IsInstance(CrudIntegrityError, CrudError)
    /\ (last.op \in CrudOps /\ last.exc # "none") =>
          /\ last.exc \in {CrudError, CrudIntegrityError, CrudUniqueValidationError}
          /\ IsInstance(last.exc, CrudError)

C9_Witness ==
    /\ last.op = "Crud.update"
    /\ last.exc = CrudIntegrityError
    /\ last.args.fault = NoFault
    /\ last.args.driver = "asyncpg"

-----
(* Paging: a table filled by create and emptied by delete, read by         *)
(* get_by_page with every combination of its parameters                     *)

PageCreateModels ==
    {CreateModel("fa", "la", "ua", "ea", TRUE),
     CreateModel("fa", "lb", "ub", "eb", FALSE),
     CreateModel("fb", "la", "uc", "ec", TRUE)}

PageSortBys ==
    {None, Some(<<>>),
     Some(<<"u", "s", "e", "r", "n", "a", "m", "e">>),
     Some(<<"i", "s", "A", "c", "t", "i", "v", "e">>)}

PageCreate == CrudCreateWith(PageCreateModels, {[user_id |-> "system", now |-> 1]}, {NoFault})

PageGetByPage == CrudGetByPageWith(PageNumbers, PageSizes, FilterArgs, PageSortBys)

(* first_name in snake_case, camelCase, kebab-case and PascalCase *)
SnakeSpelling == <<"f", "i", "r", "s", "t", "_", "n", "a", "m", "e">>

Spellings ==
    {SnakeSpelling,
     <<"f", "i", "r", "s", "t", "N", "a", "m", "e">>,
     <<"f", "i", "r", "s", "t", "-", "n", "a", "m", "e">>,
     <<"F", "i", "r", "s", "t", "N", "a", "m", "e">>}

(* two get_by_page calls on the same table that differ in the spelling of *)
(* sort_by only; the store delivers the rows of each query in an order of  *)
(* its own                                                                 *)
PageSortSpellings ==
    /\ last = Idle
    /\ \E ord1 \in Orderings(store), ord2 \in Orderings(store), sort_by \in Spellings,
          page_size \in {1, DEFAULT_PAGE_SIZE}, descending \in BOOLEAN :
        LET a == get_by_page(store, ord1, DEFAULT_PAGE_NUMBER, page_size, FALSE, None,
                             Some(SnakeSpelling), descending, NoFault)
            b == get_by_page(store, ord2, DEFAULT_PAGE_NUMBER, page_size, FALSE, None,
                             Some(sort_by), descending, NoFault)
        IN  last' = [op |-> "Crud.get_by_page twice",
                     args |-> [sort_by |-> sort_by, page_size |-> page_size, descending |-> descending],
                     exc |-> IF a.exc # "none" THEN a.exc ELSE b.exc,
                     msg |-> IF a.exc # "none" THEN a.msg ELSE b.msg,
                     val |-> IF a.exc = "none" /\ b.exc = "none" THEN <<a.val[1], b.val[1]>> ELSE <<>>]
    /\ UNCHANGED store
    /\ Frame

(* sort fields whose values no two stored rows share: the columns with a *)
(* unique constraint                                                      *)
UniqueSortBys ==
    {Some(<<"u", "s", "e", "r", "n", "a", "m", "e">>), Some(<<"e", "m", "a", "i", "l">>)}

PartitionFilters ==
    {None,
     Some(<<EqualsFilter("is_active", TRUE)>>),
     Some(<<EqualsFilter("first_name", "fa"), NotEqualsFilter("username", "ub")>>)}

PartitionSizes == {1, 2}

(* two get_by_page calls on the same table with the same filters and      *)
(* sort: one page, and the whole list with omit_pagination=true; the store *)
(* delivers the rows of each query in an order of its own                  *)
PagePartition ==
    /\ last = Idle
    /\ \E ord1 \in Orderings(store), ord2 \in Orderings(store), page_number \in PageNumbers,
          page_size \in PartitionSizes, filters \in PartitionFilters, sort_by \in UniqueSortBys,
          descending \in BOOLEAN :
        LET a == get_by_page(store, ord1, page_number, page_size, FALSE, filters,
                             sort_by, descending, NoFault)
            b == get_by_page(store, ord2, page_number, page_size, TRUE, filters,
                             sort_by, descending, NoFault)
        IN  last' = [op |-> "Crud.get_by_page page and whole",
                     args |-> [page_number |-> page_number, page_size |-> page_size,
                               filters |-> filters, sort_by |-> sort_by, descending |-> descending],
                     exc |-> IF a.exc # "none" THEN a.exc ELSE b.exc,
                     msg |-> IF a.exc # "none" THEN a.msg ELSE b.msg,
                     val |-> IF a.exc = "none" /\ b.exc = "none"
                             THEN <<a.val[1], a.val[2], b.val[1], b.val[2]>> ELSE <<>>]
    /\ UNCHANGED store
    /\ Frame

NextPage ==
    \/ PageCreate
    \/ CrudDelete
    \/ PageGetByPage
    \/ PageSortSpellings
    \/ PagePartition
    \/ Return

SpecPage == Init /\ [][NextPage]_vars

(* the filter sequence a filters argument stands for *)
FiltersOf(filters) == IF filters = None THEN <<>> ELSE CHOOSE f \in filters : TRUE

Matching(t, filters) == {r \in t : MatchesAll(FiltersOf(filters), r)}

Paged == last.op = "Crud.get_by_page" /\ last.exc = "none"

(* C1: a get_by_page call with omit_pagination=false returns at most       *)
(* page_size entities, and its total is the number of stored rows that     *)
(* satisfy all the filters, whatever page_number and page_size are.        *)
C1_PageBounded ==
    (Paged /\ ~last.args.omit_pagination) =>
        /\ Len(last.val[1]) <= last.args.page_size
        /\ last.val[2] = Cardinality(Matching(store, last.args.filters))

C1_Witness ==
    /\ Paged /\ ~last.args.omit_pagination
    /\ last.args.page_number >= 2
    /\ FiltersOf(last.args.filters) # <<>>
    /\ Len(last.val[1]) = last.args.page_size
    /\ last.val[2] > Len(last.val[1])
    /\ last.val[2] < Cardinality(store)

(* C2: a get_by_page call with omit_pagination=true returns every stored   *)
(* row that satisfies all the filters, each once, for every page_number    *)
(* and page_size, and its total is the length of the returned list.        *)
C2_OmitPagination ==
    (Paged /\ last.args.omit_pagination) =>
        /\ SeqToSet(last.val[1]) = Matching(store, last.args.filters)
        /\ Len(last.val[1]) = Cardinality(Matching(store, last.args.filters))
        /\ last.val[2] = Len(last.val[1])

C2_Witness ==
    /\ Paged /\ last.args.omit_pagination
    /\ last.args.page_number >= 2
    /\ last.args.page_size = 1
    /\ Len(last.val[1]) >= 2
    /\ Len(last.val[1]) < Cardinality(store)

(* C15: get_by_page with filters returns only stored rows that satisfy    *)
(* each filter of the list, its total is the number of stored rows that    *)
(* satisfy each of them, and without pagination it returns all of them: a  *)
(* row that fails one filter is neither returned nor counted.              *)
C15_FiltersConjoin ==
    Paged =>
        LET fs == FiltersOf(last.args.filters)
            all == {r \in store : \A i \in 1..Len(fs) : Matches(fs[i], r)}
        IN  /\ \A k \in 1..Len(last.val[1]) :
                  /\ last.val[1][k] \in store
                  /\ \A i \in 1..Len(fs) : Matches(fs[i], last.val[1][k])
            /\ last.val[2] = Cardinality(all)
            /\ last.args.omit_pagination =>
                  /\ \A r \in all : \E k \in 1..Len(last.val[1]) : last.val[1][k] = r
                  /\ Len(last.val[1]) = last.val[2]

(* two filters; one stored row passes both, one only the first, one only  *)
(* the second                                                              *)
C15_Witness ==
    /\ Paged /\ last.args.omit_pagination
    /\ Len(FiltersOf(last.args.filters)) = 2
    /\ Cardinality(store) = 3
    /\ last.val[2] = 1
    /\ Len(last.val[1]) = 1
    /\ LET fs == FiltersOf(last.args.filters)
       IN  /\ \E r \in store : Matches(fs[1], r) /\ ~Matches(fs[2], r)
           /\ \E r \in store : ~Matches(fs[1], r) /\ Matches(fs[2], r)

PageAndWhole == last.op = "Crud.get_by_page page and whole"

(* the number of pages: ceil(total / page_size) *)
PageCount(total, page_size) == (total + page_size - 1) \div page_size

(* C25: with a sort field of pairwise distinct values, page p of size s   *)
(* is the part of the unpaginated list from position (p-1)*s+1 to p*s, the *)
(* unpaginated list holds no row twice and both calls give its length as   *)
(* total; so the pages 1..ceil(total/s) are pairwise disjoint, their       *)
(* concatenation is the unpaginated list, and every later page is empty.   *)
C25_PagesPartition ==
    PageAndWhole =>
        /\ last.exc = "none"
        /\ LET page == last.val[1]
               whole == last.val[3]
               total == last.val[2]
               s == last.args.page_size
               p == last.args.page_number
               lo == (p - 1) * s + 1
               hi == IF p * s < Len(whole) THEN p * s ELSE Len(whole)
           IN  /\ total = Len(whole) /\ last.val[4] = total
               /\ \A i, j \in 1..Len(whole) : i # j => whole[i] # whole[j]
               /\ Len(page) = (IF lo <= hi THEN hi - lo + 1 ELSE 0)
               /\ \A k \in 1..Len(page) : page[k] = whole[lo + k - 1]
               /\ p > PageCount(total, s) => page = <<>>
               /\ p <= PageCount(total, s) => page # <<>>

(* the second page of size 2 of three rows sorted descending: one row *)
C25_Witness ==
    /\ PageAndWhole /\ last.exc = "none"
    /\ last.args.page_number = 2 /\ last.args.page_size = 2
    /\ last.args.descending
    /\ Len(last.val[3]) = 3
    /\ Len(last.val[1]) = 1
    /\ last.val[1][1] = last.val[3][3]

SortedTwice == last.op = "Crud.get_by_page twice"

FieldValues(rows, field) == [i \in 1..Len(rows) |-> rows[i][field]]

(* rows in the order of the direction: non-decreasing first_name when     *)
(* ascending, non-increasing when descending                               *)
InDirection(rows, descending) ==
    \A i \in 1..Len(rows) : \A j \in i..Len(rows) :
        IF descending
        THEN Rank(rows[i], "first_name") >= Rank(rows[j], "first_name")
        ELSE Rank(rows[i], "first_name") <= Rank(rows[j], "first_name")

(* C14 as stated: sorting by first_name in snake_case and in any of its   *)
(* four spellings returns the rows in the same order, non-decreasing when  *)
(* ascending and non-increasing when descending.                           *)
C14_SameOrder ==
    SortedTwice =>
        /\ last.exc = "none"
        /\ last.val[1] = last.val[2]
        /\ InDirection(last.val[1], last.args.descending)

(* C14 amended: every spelling is accepted and the two results carry the  *)
(* same sequence of first_name values, in the order of the direction; a    *)
(* row whose first_name no other stored row has is at the same position in *)
(* both.  The order among rows of equal first_name is the store's.         *)
C14_SameValues ==
    SortedTwice =>
        /\ last.exc = "none"
        /\ FieldValues(last.val[1], "first_name") = FieldValues(last.val[2], "first_name")
        /\ InDirection(last.val[1], last.args.descending)
        /\ InDirection(last.val[2], last.args.descending)
        /\ \A i \in 1..Len(last.val[1]) :
              (\A r \in store : r.first_name = last.val[1][i].first_name => r = last.val[1][i])
                 => last.val[2][i] = last.val[1][i]

(* three rows, two of them with the same first_name, sorted descending by *)
(* the kebab-case spelling: the values agree, the rows do not              *)
C14_Witness ==
    /\ SortedTwice
    /\ last.exc = "none"
    /\ last.args.sort_by = <<"f", "i", "r", "s", "t", "-", "n", "a", "m", "e">>
    /\ last.args.descending
    /\ Len(last.val[1]) = 3
    /\ last.val[1] # last.val[2]
    /\ last.val[1][1].first_name = "fb"
    /\ last.val[2][1] = last.val[1][1]

----------------------------------------------------------------------------
(* The calls a request handler makes on UserService, on one session *)

ServiceRecord(op, args, r) ==
    [op |-> op, args |-> args, out |-> r.out, raised |-> r.raised, calls |-> r.calls]

(* sort_by values naming no attribute of UserEntity, in several spellings *)
UnknownSortBys ==
    {Some(<<"n", "o", "p", "e">>), Some(<<"N", "o", "P", "e">>),
     Some(<<"u", "s", "e", "r", "-", "n", "a", "m", "e", "s">>),
     Some(<<"i", "s", "_", "a", "c", "t", "i", "v">>), Some(<<"_">>)}

ServiceSortBys ==
    {None, Some(<<>>), Some(<<"i", "s", "A", "c", "t", "i", "v", "e">>)} \cup UnknownSortBys

SvcGetPage ==
    /\ last = Idle
    /\ \E ord \in Orderings(store), page_number \in {DEFAULT_PAGE_NUMBER, 2},
          page_size \in {1, DEFAULT_PAGE_SIZE}, omit_pagination \in BOOLEAN,
          is_active \in IsActiveArgs, sort_by \in ServiceSortBys,
          descending \in BOOLEAN, fault \in ReadFaults :
        LET r == user_get_page(store, ord, page_number, page_size, omit_pagination,
                               is_active, sort_by, descending, fault)
        IN  /\ store' = r.t
            /\ last' = ServiceRecord("Service.get_page",
                                     [page_number |-> page_number, page_size |-> page_size,
                                      omit_pagination |-> omit_pagination, is_active |-> is_active,
                                      sort_by |-> sort_by, descending |-> descending,
                                      faults |-> {fault}], r)
    /\ Frame

SvcGetById ==
    /\ last = Idle
    /\ \E id \in Ids, with_for_update \in BOOLEAN, fault \in ReadFaults :
        LET r == svc_get_by_id(store, id, with_for_update, fault)
        IN  /\ store' = r.t
            /\ last' = ServiceRecord("Service.get_by_id",
                                     [id |-> id, with_for_update |-> with_for_update,
                                      faults |-> {fault}], r)
    /\ Frame

SvcCreate ==
    /\ last = Idle
    /\ \E model \in CreateModels, new_id \in Ids, c \in RouterContexts,
          fault \in WriteFaults, driver \in Drivers :
        LET r == svc_create(store, model, new_id, c.user_id, c.now, fault, driver)
        IN  /\ store' = r.t
            /\ last' = ServiceRecord("Service.create",
                                     [model |-> model, new_id |-> new_id, user_id |-> c.user_id,
                                      now |-> c.now, faults |-> {fault}, driver |-> driver], r)
    /\ Frame

SvcUpdate ==
    /\ last = Idle
    /\ \E id \in Ids, model \in UpdateModels, c \in RouterContexts,
          fault1 \in ReadFaults, fault2 \in UpdateFaults, driver \in Drivers :
        LET r == svc_update(store, id, model, c.user_id, c.now, fault1, fault2, driver)
        IN  /\ store' = r.t
            /\ last' = ServiceRecord("Service.update",
                                     [id |-> id, model |-> model, user_id |-> c.user_id,
                                      now |-> c.now, faults |-> {fault1, fault2}, driver |-> driver], r)
    /\ Frame

SvcDelete ==
    /\ last = Idle
    /\ \E id \in Ids, fault1 \in ReadFaults, fault2 \in ReadFaults :
        LET r == svc_delete(store, id, fault1, fault2)
        IN  /\ store' = r.t
            /\ last' = ServiceRecord("Service.delete", [id |-> id, faults |-> {fault1, fault2}], r)
    /\ Frame

SvcEntityExists ==
    /\ last = Idle
    /\ \E id \in Ids, fault \in ReadFaults :
        LET r == svc_entity_exists(store, id, fault)
        IN  /\ store' = r.t
            /\ last' = ServiceRecord("Service.entity_exists", [id |-> id, faults |-> {fault}], r)
    /\ Frame

NextService ==
    \/ SvcGetPage
    \/ SvcGetById
    \/ SvcCreate
    \/ SvcUpdate
    \/ SvcDelete
    \/ SvcEntityExists
    \/ Return

SpecService == Init /\ [][NextService]_vars

ServiceOps ==
    {"Service.get_page", "Service.get_by_id", "Service.create", "Service.update",
     "Service.delete", "Service.entity_exists"}

ByIdOps == {"Service.get_by_id", "Service.update", "Service.delete", "Service.entity_exists"}

(* the last Crud call a service call made *)
LastCall(rec) == rec.calls[Len(rec.calls)]

MutatingOps == {"Service.update", "Service.delete"}

(* the Crud method a service operation mutates with *)
MutatorOf(op) == IF op = "Service.update" THEN "update" ELSE "delete"

CheckedFirst ==
    (last = Idle /\ last'.op \in MutatingOps) =>
        LET calls == last'.calls
            absent == \A r \in store : r.id # last'.args.id
        IN  /\ Len(calls) \in {1, 2}
            /\ calls[1].name = "entity_exists"
            /\ Len(calls) = 2 => calls[2].name = MutatorOf(last'.op)
            /\ (calls[1].exc # "none" \/ absent) =>
                  /\ Len(calls) = 1
                  /\ store' = store
                  /\ last'.out.kind = "Err"

(* C23: update and delete of the service call Crud.entity_exists first;   *)
(* when the check raised or no row has the id they call neither            *)
(* Crud.update nor Crud.delete and leave the table as it was; no Crud      *)
(* method is called twice in one service operation.                        *)
C23_CheckBeforeMutate == [][CheckedFirst]_vars

(* an update whose existence check raised although the row is stored *)
C23_Witness ==
    /\ last.op = "Service.update"
    /\ Len(last.calls) = 1
    /\ last.calls[1].exc # "none"
    /\ last.out.kind = "Err" /\ last.out.status = InternalError
    /\ \E r \in store : r.id = last.args.id

PageCall == last = Idle /\ last'.op = "Service.get_page" /\ last'.args.faults = {NoFault}

UnknownSortFails ==
    (PageCall /\ last'.args.sort_by \in UnknownSortBys) =>
        /\ Len(last'.calls) = 1
        /\ last'.calls[1].name = "get_by_page" /\ last'.calls[1].exc = CrudError
        /\ last'.raised = "none"
        /\ last'.out.kind = "Err" /\ last'.out.status = InternalError
        /\ store' = store

NoSortNoError ==
    (PageCall /\ last'.args.sort_by \in {None, Some(<<>>)}) =>
        LET a == last'.args
            wanted(r) == a.is_active = None \/ r.is_active \in a.is_active
            offset == calculate_offset(a.page_number, a.page_size)
        IN  /\ last'.calls[1].exc = "none"
            /\ last'.out.kind = "Ok"
            /\ store' = store
            /\ \E ord \in Orderings(store) :
                  LET all == SelectSeq(ord, wanted)
                      page == IF a.omit_pagination THEN all
                              ELSE SubSeq(all, offset + 1, Min(offset + a.page_size, Len(all)))
                  IN  last'.out.value.items = [i \in 1..Len(page) |-> model_validate(page[i])]

(* C30: a get_page call whose sort_by names no attribute of the entity, in *)
(* any of its spellings, makes Crud.get_by_page fail with CrudError, and   *)
(* the service returns Err InternalError and leaves the store as it was; a *)
(* sort_by of None or of the empty string raises no error and returns the  *)
(* selected rows in the order the table delivers them                      *)
C30_UnknownSort == [][UnknownSortFails /\ NoSortNoError]_vars

C30_Witness ==
    /\ last.op = "Service.get_page" /\ last.args.faults = {NoFault}
    /\ last.args.sort_by = Some(<<"N", "o", "P", "e">>)
    /\ last.out.kind = "Err" /\ last.out.status = InternalError
    /\ Cardinality(store) >= 2

PageServed == last.op = "Service.get_page" /\ last.out.kind = "Ok"

(* C22: get_page of the user service with is_active true or false gives   *)
(* only users with that is_active and the number of all such stored users  *)
(* as total; with is_active None it restricts nothing; items and total are *)
(* those of one Crud.get_by_page call with the same page_number,           *)
(* page_size, omit_pagination, sort_by and direction.                      *)
C22_IsActiveFilter ==
    PageServed =>
        LET a == last.args
            page == last.out.value
            wanted == {r \in store : a.is_active = None \/ r.is_active \in a.is_active}
            filters == IF a.is_active = None THEN None
                       ELSE Some(<<EqualsFilter("is_active", CHOOSE b \in a.is_active : TRUE)>>)
        IN  /\ \A i \in 1..Len(page.items) :
                  \E r \in wanted : model_validate(r) = page.items[i]
            /\ page.total = Cardinality(wanted)
            /\ \E ord \in Orderings(store) :
                  LET r == get_by_page(store, ord, a.page_number, a.page_size, a.omit_pagination,
                                       filters, a.sort_by, a.descending, NoFault)
                  IN  /\ r.exc = "none"
                      /\ page.items = [i \in 1..Len(r.val[1]) |-> model_validate(r.val[1][i])]
                      /\ page.total = r.val[2]

(* is_active=false on a table with active and inactive users, sorted, the *)
(* second page of size 1                                                   *)
C22_Witness ==
    /\ PageServed
    /\ last.args.is_active = Some(FALSE)
    /\ \E r \in store : r.is_active
    /\ last.args.sort_by # None
    /\ ~last.args.omit_pagination
    /\ last.out.value.total >= 1
    /\ Len(last.out.value.items) = 1
    /\ last.out.value.total < Cardinality(store)

(* C6: get_by_id, update, delete and entity_exists of the service, called  *)
(* with an id that has no row while the store raises no fault, return Err  *)
(* with status NotFound and the detail "User with id <id> not found", and  *)
(* Crud.get_by_id returns None without raising for such an id.             *)
C6_NotFound ==
    [][(/\ last = Idle
        /\ last'.op \in ByIdOps
        /\ last'.args.faults = {NoFault}
        /\ RowsById(store, last'.args.id) = {}) =>
            /\ last'.raised = "none"
            /\ last'.out = [kind |-> "Err", status |-> "NotFound",
                            details |-> <<"{model_class} with id {id} not found", "User", last'.args.id>>]
            /\ store' = store
            /\ get_by_id(store, last'.args.id, FALSE, NoFault) = Result(store, "none", <<>>, None)]_vars

C6_Witness ==
    /\ last.op = "Service.update"
    /\ last.args.faults = {NoFault}
    /\ last.out.kind = "Err"
    /\ last.out.status = NotFound
    /\ store # {}
    /\ RowsById(store, last.args.id) = {}

(* C7: every service call returns one outcome, Ok or Err with one of the   *)
(* four statuses, whatever the Crud layer returned or raised; no exception *)
(* propagates out of the service.                                          *)
C7_OneOutcome ==
    last.op \in ServiceOps =>
        /\ last.raised = "none"
        /\ last.out.kind \in {"Ok", "Err"}
        /\ last.out.kind = "Err" => last.out.status \in {"NotFound", "BadRequest", "Conflict", "InternalError"}
        /\ last.out.kind = "Ok" => \A i \in 1..Len(last.calls) : last.calls[i].exc = "none"
        /\ (\E i \in 1..Len(last.calls) : last.calls[i].exc # "none") => last.out.kind = "Err"

C7_Witness ==
    /\ last.op = "Service.delete"
    /\ Len(last.calls) = 2
    /\ last.calls[2].exc = CrudError
    /\ last.out.kind = "Err"
    /\ last.out.status = InternalError

(* C8: in create and update of the service a CrudUniqueValidationError     *)
(* raised by the Crud layer gives Err Conflict with the per-entity         *)
(* message, and every other Crud exception, CrudIntegrityError included,   *)
(* gives Err InternalError whose detail is the exception's message.        *)
C8_WriteErrorMapping ==
    (last.op \in {"Service.create", "Service.update"} /\ LastCall(last).exc # "none") =>
        IF LastCall(last).exc = "CrudUniqueValidationError"
        THEN last.out =
               [kind |-> "Err", status |-> "Conflict",
                details |->
                  IF last.op = "Service.create"
                  THEN <<"Failed to create new {model_class} - ",
                         "{model_class} with given username or email already exists", "User">>
                  ELSE <<"Failed to update {model_class} with id {id} - ",
                         "{model_class} with given username or email already exists", "User",
                         last.args.id>>]
        ELSE last.out = [kind |-> "Err", status |-> "InternalError", details |-> LastCall(last).msg]

C8_Witness ==
    /\ last.op = "Service.update"
    /\ Len(last.calls) = 2
    /\ last.calls[2].exc = CrudUniqueValidationError
    /\ last.out.kind = "Err"
    /\ last.out.status = Conflict


----------------------------------------------------------------------------
(* Requests: get_db gives every request a session of its own and one       *)
(* transaction around the handler.  `db` is the committed table, req[r]     *)
(* the request in slot r: where it is, its session, its transaction, the    *)
(* rows its transaction wrote and has not committed, and how its handler    *)
(* left.                                                                    *)

(* every error mapped to 500 with its details *)
http_exception_from_error_500(error) ==
    IF error # None
    THEN HTTPException(500, (CHOOSE x \in error : TRUE).details)
    ELSE HTTPException(500, <<"Unknown error">>)

(* http_exception_from_error: error is None ({}) or one ErrorResult *)
http_exception_from_error(error) ==
    IF error # None
    THEN LET e == CHOOSE x \in error : TRUE
         IN  CASE e.status = NotFound -> HTTPException(404, e.details)
               [] e.status = BadRequest -> HTTPException(400, e.details)
               [] e.status = Conflict -> HTTPException(409, e.details)
               [] e.status = InternalError -> HTTPException(500, e.details)
               [] OTHER -> HTTPException(500, <<"Unknown error">>)
    ELSE HTTPException(500, <<"Unknown error">>)

(* AsyncSession(bind=engine, ...): the n-th call constructs the n-th session *)
NewSession(n) == n

(* what a transaction that started from table t0 and sees t1 has written *)
Writes(t0, t1) ==
    [upserts |-> t1 \ t0, deleted |-> {r.id : r \in t0} \ {r.id : r \in t1}]

Written(upserts, deleted) == {u.id : u \in upserts} \cup deleted

(* the table with the writes of a transaction applied *)
Applied(t, upserts, deleted) ==
    {row \in t : row.id \notin Written(upserts, deleted)} \cup upserts

(* the table as the transaction of request r sees it: what is committed   *)
(* and what it wrote itself                                                *)
View(r) == Applied(db, req[r].upserts, req[r].deleted)

(* session.begin().__aexit__ leaving with every exception committed *)
TransactionExitCommitAlways(t, upserts, deleted, exc) ==
    [t |-> Applied(t, upserts, deleted), tx |-> "committed"]

(* session.begin().__aexit__: commit when the block was left without an   *)
(* exception, rollback when an exception left it                           *)
TransactionExit(t, upserts, deleted, exc) ==
    IF exc = "none"
    THEN [t |-> Applied(t, upserts, deleted), tx |-> "committed"]
    ELSE [t |-> t, tx |-> "rolled_back"]

Active(r) == req[r].pc \in {"handler", "read", "returned", "raised"}

(* the rows and unique values the open transaction of request q holds:    *)
(* a statement of another transaction that needs one of them waits until   *)
(* q's transaction ends                                                     *)
HeldRows(q) ==
    req[q].upserts \cup {row \in db : row.id \in Written(req[q].upserts, req[q].deleted)}

(* statements that never wait for another transaction *)
WaitsNever(r, ids, usernames, emails) == FALSE

Waits(r, ids, usernames, emails) ==
    \E q \in Requests \ {r} :
        /\ Active(q)
        /\ \/ ids \cap (Written(req[q].upserts, req[q].deleted) \cup req[q].locked) # {}
           \/ \E row \in HeldRows(q) : row.username \in usernames \/ row.email \in emails

(* ids no row has, committed or not *)
FreshIds ==
    Ids \ ({row.id : row \in db}
           \cup UNION {Written(req[q].upserts, req[q].deleted) : q \in {x \in Requests : Active(x)}})

(* uuid.uuid4() of the mapper: an id no row has; which one it is makes no  *)
(* difference to any operation, the least is taken                         *)
uuid4 == {i \in FreshIds : \A j \in FreshIds : i <= j}

(* get_db up to its yield: a new session, entered, and its transaction begun *)
GetDb(r) ==
    /\ req[r].pc \in {"idle", "done"}
    /\ nextSession <= MaxSessions
    /\ req' = [req EXCEPT ![r] = [NoRequest EXCEPT !.pc = "handler",
                                                   !.session = NewSession(nextSession),
                                                   !.open = TRUE,
                                                   !.tx = "active"]]
    /\ nextSession' = nextSession + 1
    /\ UNCHANGED <<db, store, last>>

(* get_user_data_service / get_user_service: the Crud of the request's    *)
(* service works on the session get_db yielded to this request             *)
ServiceSession(r) == req[r].session

(* the end of a handler whose service call gave s: return on Ok, raise    *)
(* the HTTPException of the error on Err; an exception out of the service  *)
(* leaves the handler as it is                                             *)
HandlerLeft(r, name, s, ok_status) ==
    LET exc == IF s.raised # "none"
               THEN [cls |-> s.raised, status_code |-> 500, detail |-> <<>>]
               ELSE IF s.out.kind = "Err" THEN http_exception_from_error(Some(s.out))
               ELSE [cls |-> "none", status_code |-> ok_status, detail |-> <<>>]
        w == Writes(db, s.t)
    IN  /\ req' = [req EXCEPT ![r] =
                     [pc |-> IF exc.cls = "none" THEN "returned" ELSE "raised",
                      session |-> req[r].session,
                      open |-> req[r].open,
                      tx |-> req[r].tx,
                      handler |-> name,
                      used |-> {ServiceSession(r)},
                      upserts |-> w.upserts,
                      deleted |-> w.deleted,
                      wrote |-> w.upserts # {} \/ w.deleted # {},
                      exc |-> exc.cls,
                      status_code |-> exc.status_code,
                      read |-> req[r].read,
                      locked |-> req[r].locked,
                      model |-> req[r].model,
                      listed |-> req[r].listed]]
        /\ UNCHANGED <<db, nextSession, store, last>>

GetUsers(r) ==
    /\ req[r].pc = "handler"
    /\ \E ord \in Orderings(View(r)), is_active \in {None}, fault \in ReadFaults :
        HandlerLeft(r, "get_users",
                    user_get_page(View(r), ord, DEFAULT_PAGE_NUMBER, DEFAULT_PAGE_SIZE, FALSE,
                                  is_active, None, FALSE, fault),
                    200)

GetUserById(r) ==
    /\ req[r].pc = "handler"
    /\ \E user_id \in Ids, fault \in ReadFaults :
        HandlerLeft(r, "get_user_by_id", svc_get_by_id(View(r), user_id, FALSE, fault), 200)

RequestCreateModels ==
    {CreateModel("fa", "la", "ua", "ea", TRUE), CreateModel("fa", "la", "ub", "eb", FALSE)}

CreateUser(r) ==
    /\ req[r].pc = "handler"
    /\ \E user \in RequestCreateModels, new_id \in uuid4, c \in RouterContexts,
          fault \in {NoFault, OtherFault}, driver \in Drivers :
        /\ ~Waits(r, {new_id}, {user.username}, {user.email})
        /\ HandlerLeft(r, "create_user",
                       svc_create(View(r), user, new_id, c.user_id, c.now, fault, driver), 201)

RequestUpdateModels ==
    {UpdateModel([first_name |-> "fb"]), UpdateModel([username |-> "ub"])}

(* the unique values an UPDATE of the row with the id would write *)
UpdateKeys(user_id, user, field) ==
    IF RowsById(db, user_id) # {} /\ field \in user.fields_set THEN {user.values[field]} ELSE {}

UpdateUser(r) ==
    /\ req[r].pc = "handler"
    /\ \E user_id \in Ids, user \in RequestUpdateModels, c \in RouterContexts,
          fault \in {NoFault, RefetchFault}, driver \in Drivers :
        /\ ~Waits(r, {user_id}, UpdateKeys(user_id, user, "username"), UpdateKeys(user_id, user, "email"))
        /\ HandlerLeft(r, "update_user",
                       svc_update(View(r), user_id, user, c.user_id, c.now, NoFault, fault, driver), 200)

DeleteUser(r) ==
    /\ req[r].pc = "handler"
    /\ \E user_id \in Ids, fault \in ReadFaults :
        /\ ~Waits(r, {user_id}, {}, {})
        /\ HandlerLeft(r, "delete_user", svc_delete(View(r), user_id, NoFault, fault), 204)

(* get_db after its yield: the transaction block is left with the         *)
(* handler's exception or without one, then the session block closes the   *)
(* session.  Of the request there remains how its handler left and how     *)
(* its transaction ended.                                                  *)
GetDbExit(r) ==
    /\ req[r].pc \in {"returned", "raised"}
    /\ LET x == TransactionExit(db, req[r].upserts, req[r].deleted, req[r].exc)
       IN  /\ db' = x.t
           /\ req' = [req EXCEPT ![r] = [NoRequest EXCEPT !.pc = "done",
                                                          !.tx = x.tx,
                                                          !.wrote = req[r].wrote,
                                                          !.exc = req[r].exc]]
    /\ UNCHANGED <<nextSession, store, last>>

NextReq ==
    \E r \in Requests :
        \/ GetDb(r)
        \/ GetUsers(r)
        \/ GetUserById(r)
        \/ CreateUser(r)
        \/ UpdateUser(r)
        \/ DeleteUser(r)
        \/ GetDbExit(r)

SpecReq == Init /\ [][NextReq]_vars

(* the step in which get_db is left for request r *)
ExitStep(r) == req[r].pc \in {"returned", "raised"} /\ req'[r].pc = "done"

(* what holds of the sessions and transactions in every state *)
RequestSessions ==
    /\ \A r \in Requests : \A q \in Requests \ {r} :
          (req[r].open /\ req[q].open) => req[r].session # req[q].session
    /\ \A r \in Requests :
          /\ Active(r) => (req[r].open /\ req[r].tx = "active" /\ req[r].session # 0)
          /\ req[r].pc \in {"returned", "raised"} => req[r].used = {req[r].session}
          /\ req[r].pc = "returned" => req[r].exc = "none"
          /\ req[r].pc = "raised" => req[r].exc # "none"
          /\ req[r].pc = "done" =>
                /\ ~req[r].open
                /\ req[r].tx = IF req[r].exc = "none" THEN "committed" ELSE "rolled_back"

(* what holds of every step: the committed table changes only when the    *)
(* transaction of a handler that returned ends, and then by all of that    *)
(* handler's writes at once                                                *)
RequestTransactions ==
    /\ \A r \in Requests :
          ExitStep(r) =>
             IF req[r].pc = "returned"
             THEN db' = Applied(db, req[r].upserts, req[r].deleted)
             ELSE db' = db
    /\ db' # db => \E r \in Requests : ExitStep(r) /\ req[r].pc = "returned"

(* C10: every request has a session of its own, distinct from the session *)
(* of every request open at the same time, and its handler's store         *)
(* operations run on it in one transaction; the transaction commits when   *)
(* the handler returns and rolls back when the handler leaves with an      *)
(* exception, the HTTPException of an Err outcome included, and the        *)
(* session is closed either way.                                           *)
C10_RequestTransaction == []RequestSessions /\ [][RequestTransactions]_vars

(* a handler left with an HTTPException after its transaction had written: *)
(* the transaction was rolled back and the session closed, while another   *)
(* request with an open session holds an uncommitted write, and an earlier *)
(* request has committed                                                   *)
C10_Witness ==
    \E r \in Requests : \E q \in Requests \ {r} :
        /\ req[r].pc = "done"
        /\ req[r].tx = "rolled_back"
        /\ req[r].exc = "HTTPException"
        /\ req[r].wrote
        /\ ~req[r].open
        /\ req[q].pc = "returned"
        /\ req[q].open
        /\ req[q].upserts # {}
        /\ req[q].upserts \cap db = {}
        /\ db # {}

----------------------------------------------------------------------------
(* Read-then-update: transactions that read a row with get_by_id, with or  *)
(* without with_for_update, and then update it from what they read (they   *)
(* flip is_active), over a table of two committed rows                     *)

LockRows ==
    {to_user_entity(CreateModel("fa", "la", "ua", "ea", TRUE), "system", 1, 1),
     to_user_entity(CreateModel("fa", "la", "ub", "eb", FALSE), "system", 2, 1)}

InitLock ==
    /\ store = {}
    /\ last = Idle
    /\ db = LockRows
    /\ req = [r \in Requests |-> NoRequest]
    /\ nextSession = 1

(* Crud.get_by_id in the transaction of request r: a SELECT ... FOR UPDATE *)
(* waits while another open transaction holds a lock on the row or has     *)
(* written it, and then reads what is committed                            *)
GetByIdInTransaction(r) ==
    /\ req[r].pc = "handler"
    /\ \E entity_id \in Ids, with_for_update \in BOOLEAN :
        LET g == get_by_id(View(r), entity_id, with_for_update, NoFault)
            locks == RowLocks(with_for_update, g.val)
        IN  /\ ~Waits(r, locks, {}, {})
            /\ req' = [req EXCEPT ![r].pc = "read",
                                  ![r].handler = "get_by_id",
                                  ![r].used = {ServiceSession(r)},
                                  ![r].read = [id |-> entity_id, with_for_update |-> with_for_update,
                                               val |-> g.val],
                                  ![r].locked = locks]
    /\ UNCHANGED <<db, nextSession, store, last>>

(* Crud.update of the row that was read, with is_active set to the         *)
(* opposite of the value read; the UPDATE waits for a row another open     *)
(* transaction has locked or written                                       *)
UpdateAfterRead(r) ==
    /\ req[r].pc = "read"
    /\ req[r].read.val # None
    /\ ~Waits(r, {req[r].read.id}, {}, {})
    /\ \E seen \in req[r].read.val, c \in RouterContexts, fault \in {NoFault, RefetchFault} :
        LET u == update(View(r), req[r].read.id, UpdateModel([is_active |-> ~seen.is_active]),
                        c.user_id, c.now, fault, "asyncpg")
            w == Writes(db, u.t)
        IN  req' = [req EXCEPT ![r].pc = IF u.exc = "none" THEN "returned" ELSE "raised",
                               ![r].handler = "update",
                               ![r].upserts = w.upserts,
                               ![r].deleted = w.deleted,
                               ![r].wrote = w.upserts # {} \/ w.deleted # {},
                               ![r].exc = u.exc]
    /\ UNCHANGED <<db, nextSession, store, last>>

(* the caller gives up after the read and raises *)
EndAfterRead(r) ==
    /\ req[r].pc = "read"
    /\ req' = [req EXCEPT ![r].pc = "raised", ![r].exc = "Exception"]
    /\ UNCHANGED <<db, nextSession, store, last>>

NextLock ==
    \E r \in Requests :
        \/ GetDb(r)
        \/ GetByIdInTransaction(r)
        \/ UpdateAfterRead(r)
        \/ EndAfterRead(r)
        \/ GetDbExit(r)

SpecLock == InitLock /\ [][NextLock]_vars

(* a transaction that read an existing row with with_for_update *)
LockedReader(r) == Active(r) /\ req[r].read.with_for_update /\ req[r].read.val # None

(* while a locked reader's transaction is open it alone holds the lock,   *)
(* no other open transaction has written the row, and the committed row    *)
(* is the one it read                                                      *)
LockedReads ==
    \A r \in Requests :
        LockedReader(r) =>
            /\ req[r].locked = {req[r].read.id}
            /\ RowsById(db, req[r].read.id) = req[r].read.val
            /\ \A q \in Requests \ {r} :
                  Active(q) =>
                     req[r].read.id \notin (req[q].locked \cup Written(req[q].upserts, req[q].deleted))

(* the update a locked reader commits is applied to the row it read: the  *)
(* committed is_active is the opposite of the one committed before         *)
LockedUpdates ==
    \A r \in Requests :
        (ExitStep(r) /\ req[r].pc = "returned" /\ LockedReader(r) /\ req[r].wrote) =>
            \A old \in RowsById(db, req[r].read.id) :
                /\ RowsById(db', req[r].read.id) # {}
                /\ \A new \in RowsById(db', req[r].read.id) : new.is_active = ~old.is_active

(* C11: of two transactions that read the same existing row with          *)
(* with_for_update and then update it, the second's read returns only      *)
(* after the first has committed or rolled back and gives the committed    *)
(* values, and no update is lost.                                          *)
C11_ForUpdateSerializes == []LockedReads /\ [][LockedUpdates]_vars

(* a transaction holds the lock on row 1 and has read the is_active that   *)
(* another transaction, now committed, wrote over the initial TRUE         *)
C11_Witness ==
    \E r \in Requests : \E q \in Requests \ {r} :
        /\ req[r].pc = "read"
        /\ req[r].read.with_for_update
        /\ req[r].read.id = 1
        /\ req[r].locked = {1}
        /\ \E row \in req[r].read.val : ~row.is_active
        /\ req[q].pc = "done"
        /\ req[q].tx = "committed"
        /\ req[q].wrote

----------------------------------------------------------------------------
(* Requests whose Crud calls are separate steps: between the existence    *)
(* check and the UPDATE or DELETE of BaseService.update and                *)
(* BaseService.delete, and between the data statement and the count        *)
(* statement of Crud.get_by_page, other transactions run and commit.       *)
(* Every statement sees what is committed when it runs (read committed)    *)
(* and what its own transaction wrote.  The table starts with two rows;    *)
(* the driver is the one whose unique violation Crud recognises.           *)

RaceUpdateModels ==
    {UpdateModel([first_name |-> "fb"]), UpdateModel([last_name |-> "lb"])}

(* the id the racing handlers are called with: the handlers race for one  *)
(* stored row, which is absent once a delete of it committed              *)
RaceIds == {1}

(* the handlers that check and then write, with their update model *)
RaceCalls ==
    {[handler |-> "update_user", model |-> m] : m \in RaceUpdateModels}
        \cup {[handler |-> "delete_user", model |-> UpdateModel(<<>>)]}

(* BaseService.update after the existence check returned true *)
svc_update_checked(t, entity_id, model, user_id, now, fault, driver) ==
    LET r == update(t, entity_id, model, user_id, now, fault, driver)
        calls == <<Call("update", r)>>
    IN  IF r.exc # "none"
        THEN OnWriteException(r, build_update_crud_unique_validation_error_msg(entity_id), calls)
        ELSE Returned(r.t, Ok(model_validate(CHOOSE e \in r.val : TRUE)), calls)

(* BaseService.delete after the existence check returned true *)
svc_delete_checked(t, entity_id, fault) ==
    LET r == delete(t, entity_id, fault)
        calls == <<Call("delete", r)>>
    IN  IF r.exc # "none" THEN OnCrudException(r, calls)
        ELSE Returned(r.t, Ok(None), calls)

(* the end of a handler as in HandlerLeft; the UPDATE or DELETE statement *)
(* it executed holds the lock of the row it matched until the transaction  *)
(* ends, also when it left the row's values as they were                   *)
RaceLeft(r, s, ok_status, matched) ==
    LET exc == IF s.out.kind = "Err" THEN http_exception_from_error(Some(s.out))
               ELSE [cls |-> "none", status_code |-> ok_status, detail |-> <<>>]
        w == Writes(db, s.t)
    IN  /\ req' = [req EXCEPT ![r].pc = IF exc.cls = "none" THEN "returned" ELSE "raised",
                              ![r].upserts = w.upserts,
                              ![r].deleted = w.deleted,
                              ![r].wrote = w.upserts # {} \/ w.deleted # {},
                              ![r].exc = exc.cls,
                              ![r].status_code = exc.status_code,
                              ![r].locked = {row.id : row \in matched}]
        /\ UNCHANGED <<db, nextSession, store, last>>

(* the first statement of update_user and delete_user: entity_exists; the *)
(* row it found, if any, is kept in read.val                               *)
RaceExists(r) ==
    /\ req[r].pc = "handler"
    /\ \E entity_id \in RaceIds, call \in RaceCalls :
        LET x == entity_exists(View(r), entity_id, NoFault)
        IN  req' = [req EXCEPT ![r].pc = "read",
                               ![r].handler = call.handler,
                               ![r].model = call.model,
                               ![r].used = {ServiceSession(r)},
                               ![r].read = [id |-> entity_id, with_for_update |-> FALSE,
                                            val |-> IF x.val THEN RowsById(View(r), entity_id)
                                                    ELSE None]]
    /\ UNCHANGED <<db, nextSession, store, last>>

(* the rest of update_user and delete_user: NotFound when the check found *)
(* no row, else Crud.update or Crud.delete, whose statement waits for a    *)
(* row or unique value another open transaction holds                      *)
RaceMutate(r) ==
    /\ req[r].pc = "read"
    /\ req[r].handler \in {"update_user", "delete_user"}
    /\ LET entity_id == req[r].read.id
           user == req[r].model
           matched == RowsById(View(r), entity_id)
       IN  IF req[r].read.val = None
           THEN RaceLeft(r, Returned(View(r), not_found_error_response(NotFoundDetails(entity_id)), <<>>),
                         200, {})
           ELSE IF req[r].handler = "update_user"
           THEN /\ ~Waits(r, {entity_id}, UpdateKeys(entity_id, user, "username"),
                          UpdateKeys(entity_id, user, "email"))
                /\ \E c \in RouterContexts :
                     RaceLeft(r, svc_update_checked(View(r), entity_id, user, c.user_id, c.now,
                                                    NoFault, "psycopg2"),
                              200, matched)
           ELSE /\ ~Waits(r, {entity_id}, {}, {})
                /\ RaceLeft(r, svc_delete_checked(View(r), entity_id, NoFault), 204, matched)

RacePageSizes == {1}

RaceSortBy == Some(<<"u", "s", "e", "r", "n", "a", "m", "e">>)

(* the data statement of Crud.get_by_page, called by get_users *)
RacePageData(r) ==
    /\ req[r].pc = "handler"
    /\ \E ord \in Orderings(View(r)), page_size \in RacePageSizes, omit_pagination \in BOOLEAN :
        LET q == apply_params(ord, DEFAULT_PAGE_NUMBER, page_size, omit_pagination, None,
                              RaceSortBy, FALSE)
        IN  req' = [req EXCEPT ![r].pc = "read",
                               ![r].handler = "get_users",
                               ![r].used = {ServiceSession(r)},
                               ![r].listed = [rows |-> q.rows, total |-> 0,
                                              omit_pagination |-> omit_pagination,
                                              page_size |-> page_size]]
    /\ UNCHANGED <<db, nextSession, store, last>>

(* the count statement of the same call, after which get_users returns *)
RacePageCount(r) ==
    /\ req[r].pc = "read"
    /\ req[r].handler = "get_users"
    /\ \E ord \in Orderings(View(r)) :
        LET q == apply_params(ord, DEFAULT_PAGE_NUMBER, req[r].listed.page_size,
                              req[r].listed.omit_pagination, None, RaceSortBy, FALSE)
        IN  req' = [req EXCEPT ![r].pc = "returned",
                               ![r].status_code = 200,
                               ![r].listed.total = q.count]
    /\ UNCHANGED <<db, nextSession, store, last>>

NextRace ==
    \E r \in Requests :
        \/ GetDb(r)
        \/ RaceExists(r)
        \/ RaceMutate(r)
        \/ RacePageData(r)
        \/ RacePageCount(r)
        \/ GetDbExit(r)

SpecRace == InitLock /\ [][NextRace]_vars

(* request r has run update_user to its end *)
UpdateEnded(r) == req[r].handler = "update_user" /\ req[r].pc \in {"returned", "raised"}

(* when the transaction of an update that returned commits, the committed *)
(* row takes the values of its update model, and every other field but     *)
(* the two last-modified ones keeps the value committed just before        *)
CommitKeepsOthers ==
    \A r \in Requests :
        (ExitStep(r) /\ req[r].handler = "update_user" /\ req[r].pc = "returned") =>
            /\ RowsById(db, req[r].read.id) # {}
            /\ \A old \in RowsById(db, req[r].read.id) :
                  \E new \in RowsById(db', req[r].read.id) :
                      \A f \in DOMAIN old :
                          IF f \in req[r].model.fields_set THEN new[f] = req[r].model.values[f]
                          ELSE f \notin LastModifiedFields => new[f] = old[f]

(* C26: of two transactions that update the same row with update models  *)
(* of disjoint fields and both commit, neither overwrites a field it did   *)
(* not set: each commit leaves every field outside its update model (the   *)
(* last-modified fields apart) as committed before, so the row ends with   *)
(* the new values of both.                                                 *)
C26_DisjointUpdates == [][CommitKeepsOthers]_vars

(* both requests have committed an update of row 1, one of first_name and *)
(* one of last_name, and the row holds both new values                     *)
C26_Witness ==
    /\ \A r \in {1, 2} : req[r].pc = "done" /\ req[r].tx = "committed" /\ req[r].wrote
    /\ nextSession = 3
    /\ \E row \in db : row.id = 1 /\ row.first_name = "fb" /\ row.last_name = "lb"

(* C27: while the store raises no fault, update of the service ends with  *)
(* Ok, NotFound or Conflict (200, 404, 409) and never with InternalError,  *)
(* whatever other transactions delete and commit meanwhile.                *)
C27_UpdateOutcomes ==
    \A r \in Requests : UpdateEnded(r) => req[r].status_code \in {200, 404, 409}

(* C28: the list and the total of one get_by_page call agree: without     *)
(* pagination the length of the list is the total, with pagination it is   *)
(* at most the total, whatever other transactions create, delete and       *)
(* commit meanwhile.                                                       *)
C28_ListMatchesTotal ==
    \A r \in Requests :
        (req[r].handler = "get_users" /\ req[r].pc = "returned") =>
            IF req[r].listed.omit_pagination
            THEN Len(req[r].listed.rows) = req[r].listed.total
            ELSE Len(req[r].listed.rows) <= req[r].listed.total

----------------------------------------------------------------------------
(* The HTTP boundary: the routers' handlers and the exception handlers of  *)
(* the application                                                         *)

(* str_strip_whitespace=True of BaseModelWithConfig on a str field.  A    *)
(* text is a sequence, its first element the message or its template;      *)
(* " da " is the one text of the model with whitespace at its ends         *)
str_strip_whitespace(text) ==
    IF text # <<>> /\ text[1] = " da " THEN [text EXCEPT ![1] = "da"] ELSE text

ProblemDetails(title, detail, status) ==
    [title |-> title, detail |-> str_strip_whitespace(detail), instance |-> None, status |-> status,
     type |-> "about:blank", additional_properties |-> None]

ProblemDetailsFields == {"title", "detail", "instance", "status", "type", "additional_properties"}

JSONResponse(content, status_code) == [status_code |-> status_code, body |-> content]

STATUSES ==
    <<<<400, "Bad Request">>, <<401, "Unauthorized">>, <<403, "Unauthorized">>, <<404, "Not Found">>,
      <<405, "Method Not Allowed">>, <<409, "Conflict">>, <<422, "Unprocessable Content">>>>

generic_error_handler(exc, status_code, title) ==
    JSONResponse(ProblemDetails(title, exc.detail, status_code), status_code)

(* other_errors_handler passing exc.detail on for every status code *)
other_errors_handler_detail(exc) ==
    JSONResponse(ProblemDetails("Error", exc.detail, exc.status_code), exc.status_code)

other_errors_handler(exc) ==
    IF exc.status_code >= 500
    THEN JSONResponse(ProblemDetails("Internal Server Error", <<"Internal Server Error">>, exc.status_code),
                      exc.status_code)
    ELSE JSONResponse(ProblemDetails("Error", exc.detail, exc.status_code), exc.status_code)

(* the handler the application has for an HTTPException: the one added    *)
(* for its status code if there is one, else the one for the class         *)
HandleHTTPException(exc) ==
    LET added == {i \in DOMAIN STATUSES : STATUSES[i][1] = exc.status_code}
    IN  IF added # {}
        THEN LET i == CHOOSE j \in added : \A k \in added : k <= j
             IN  generic_error_handler(exc, STATUSES[i][1], STATUSES[i][2])
        ELSE other_errors_handler(exc)

build_validation_error_detail(errors) == <<"[ {} ]", errors>>

(* the answer of FastAPI's own handler of RequestValidationError *)
validation_exception_handler_422(errors) ==
    JSONResponse(ProblemDetails("Validation Error", build_validation_error_detail(errors), 422), 422)

validation_exception_handler(errors) ==
    JSONResponse(ProblemDetails("Validation Error", build_validation_error_detail(errors), 400), 400)

(* an exception that is no HTTPException leaves the application: the      *)
(* server answers 500 with a plain text                                    *)
ServerError == JSONResponse([text |-> "Internal Server Error"], 500)

(* a handler's `match`: return the value of Ok with the route's status    *)
(* code, raise the HTTPException of Err                                    *)
RouteResponse(s, ok_status) ==
    IF s.raised # "none" THEN ServerError
    ELSE IF s.out.kind = "Ok" THEN JSONResponse(s.out.value, ok_status)
    ELSE HandleHTTPException(http_exception_from_error(Some(s.out)))

(* a query parameter as it arrives: an integer literal or some other text *)
QueryInts ==
    {[is_int |-> TRUE, value |-> v] : v \in {-1, 0, 1, DEFAULT_PAGE_SIZE}}
        \cup {[is_int |-> FALSE, value |-> 0]}

(* Query(..., gt=0) on an int parameter: the errors of one parameter *)
ValidateQueryInt(alias, raw) ==
    IF ~raw.is_int THEN <<[loc |-> <<"query", alias>>, msg |-> "int_parsing"]>>
    ELSE IF ~(raw.value > 0) THEN <<[loc |-> <<"query", alias>>, msg |-> "greater_than"]>>
    ELSE <<>>

(* a request body as it arrives: the UserCreate fields it has and their values *)
CreateBodies ==
    {[given |-> {"first_name", "last_name", "username", "email", "is_active"}, model |-> m] : m \in CreateModels}
        \cup {[given |-> {"first_name", "last_name"}, model |-> CreateModel("fa", "la", "", "", TRUE)]}

(* UserCreate: first_name, last_name, username and email are required *)
ValidateUserCreate(body) ==
    LET required == <<"first_name", "last_name", "username", "email">>
        missing == {i \in DOMAIN required : required[i] \notin body.given}
        F[i \in 0..Len(required)] ==
            IF i = 0 THEN <<>>
            ELSE IF i \in missing
                 THEN Append(F[i - 1], [loc |-> <<"body", required[i]>>, msg |-> "missing"])
                 ELSE F[i - 1]
    IN  F[Len(required)]

(* what a request did: the route, its arguments, the service methods it   *)
(* called, the outcome of the service and the response sent                *)
HttpRecord(op, args, services, s, response) ==
    [op |-> op, args |-> args, services |-> services, out |-> s.out, raised |-> s.raised,
     calls |-> s.calls, response |-> response]

(* no service was called *)
NotCalled(t) == [t |-> t, out |-> [kind |-> "none"], raised |-> "none", calls |-> <<>>]

(* the table after the request's transaction: committed when the handler  *)
(* returned, rolled back when it raised                                    *)
AfterRequest(t, s, response) ==
    LET w == Writes(t, s.t)
    IN  TransactionExit(t, w.upserts, w.deleted,
                        IF response.status_code < 400 THEN "none" ELSE "HTTPException").t

HttpRequest(op, args, errors, service, s, ok_status) ==
    LET response == IF errors # <<>> THEN validation_exception_handler(errors)
                    ELSE RouteResponse(s, ok_status)
    IN  /\ last = Idle
        /\ last' = IF errors # <<>>
                   THEN HttpRecord(op, args, <<>>, NotCalled(store), response)
                   ELSE HttpRecord(op, args, <<service>>, s, response)
        /\ store' = IF errors # <<>> THEN store ELSE AfterRequest(store, s, response)
        /\ Frame

HttpGetUsers ==
    \E page_number \in QueryInts, page_size \in QueryInts, omit_pagination \in BOOLEAN,
       is_active \in {None, Some(TRUE)}, ord \in Orderings(store), fault \in ReadFaults :
        HttpRequest("get_users",
                    [page_number |-> page_number, page_size |-> page_size,
                     omit_pagination |-> omit_pagination, is_active |-> is_active],
                    ValidateQueryInt("pageNumber", page_number) \o ValidateQueryInt("pageSize", page_size),
                    "get_page",
                    user_get_page(store, ord, page_number.value, page_size.value, omit_pagination,
                                  is_active, None, FALSE, fault),
                    200)

HttpGetUserById ==
    \E user_id \in Ids, fault \in ReadFaults :
        HttpRequest("get_user_by_id", [user_id |-> user_id], <<>>, "get_by_id",
                    svc_get_by_id(store, user_id, FALSE, fault), 200)

HttpCreateUser ==
    \E user \in CreateBodies, new_id \in Ids \ {row.id : row \in store}, c \in RouterContexts,
       fault \in WriteFaults, driver \in Drivers :
        HttpRequest("create_user", [user |-> user, fault |-> fault, driver |-> driver],
                    ValidateUserCreate(user), "create",
                    svc_create(store, user.model, new_id, c.user_id, c.now, fault, driver), 201)

HttpUpdateUser ==
    \E user_id \in Ids, user \in UpdateModels, c \in RouterContexts,
       fault \in UpdateFaults, driver \in Drivers :
        HttpRequest("update_user", [user_id |-> user_id, user |-> user, fault |-> fault, driver |-> driver],
                    <<>>, "update",
                    svc_update(store, user_id, user, c.user_id, c.now, NoFault, fault, driver), 200)

HttpDeleteUser ==
    \E user_id \in Ids, fault \in ReadFaults :
        HttpRequest("delete_user", [user_id |-> user_id], <<>>, "delete",
                    svc_delete(store, user_id, NoFault, fault), 204)

(* the status code of each route when its service returns Ok *)
Routes ==
    [get_users |-> 200, get_user_by_id |-> 200, create_user |-> 201, update_user |-> 200,
     delete_user |-> 204]

ErrorDetails == {<<"da">>, <<"db">>, <<" da ">>}

(* the argument of http_exception_from_error: None, an ErrorResult of     *)
(* each status, or one whose status is none of the four                    *)
ErrorArgs ==
    {None} \cup {Some(Err(status, details)) :
                    status \in ErrorStatus \cup {"Unrecognised"}, details \in ErrorDetails}

(* a route whose service is replaced by one that returns the given error: *)
(* the handler raises http_exception_from_error(error) and the             *)
(* application's exception handler answers                                 *)
HttpErrorResponse ==
    /\ last = Idle
    /\ \E op \in DOMAIN Routes, error \in ErrorArgs :
        last' = [op |-> op, args |-> [error |-> error], services |-> <<"mocked">>,
                 out |-> IF error = None THEN [kind |-> "none"] ELSE CHOOSE e \in error : TRUE,
                 raised |-> "none", calls |-> <<>>,
                 response |-> HandleHTTPException(http_exception_from_error(error))]
    /\ UNCHANGED store
    /\ Frame

NextHttp ==
    \/ HttpGetUsers
    \/ HttpGetUserById
    \/ HttpCreateUser
    \/ HttpUpdateUser
    \/ HttpDeleteUser
    \/ HttpErrorResponse
    \/ Return

SpecHttp == Init /\ [][NextHttp]_vars

(* a request answered by a route: its record is in `last` *)
Answered == last # Idle /\ last.op \in DOMAIN Routes

StatusCodeOf(status) ==
    CASE status = NotFound -> 404
      [] status = BadRequest -> 400
      [] status = Conflict -> 409
      [] status = InternalError -> 500
      [] OTHER -> 500

IsProblemDetails(response) ==
    /\ DOMAIN response.body = ProblemDetailsFields
    /\ response.body.status = response.status_code
    /\ response.body.type = "about:blank"
    /\ response.body.instance = None

(* C12: Ok is answered with 200 by list, get and update, 201 by create    *)
(* and 204 by delete; Err is answered with 404 for NotFound, 400 for       *)
(* BadRequest, 409 for Conflict and 500 for InternalError; a missing or    *)
(* unrecognised error with 500; every error body is a problem-details      *)
(* object.                                                                 *)
C12_StatusMapping ==
    Answered =>
        /\ last.out.kind = "Ok" => last.response.status_code = Routes[last.op]
        /\ last.out.kind = "Err" =>
              /\ last.response.status_code = StatusCodeOf(last.out.status)
              /\ IsProblemDetails(last.response)
        /\ (last.out.kind = "none" /\ last.services # <<>>) =>
              /\ last.response.status_code = 500
              /\ IsProblemDetails(last.response)
        /\ last.response.status_code >= 400 => IsProblemDetails(last.response)

(* a create answered with 409 for the Conflict of the service *)
C12_Witness ==
    /\ Answered
    /\ last.op = "create_user"
    /\ last.services = <<"create">>
    /\ last.out.kind = "Err"
    /\ last.out.status = Conflict
    /\ last.response.status_code = 409
    /\ last.response.body.title = "Conflict"

(* the response to the HTTPException of an error *)
ErrorResponse(status, details) ==
    HandleHTTPException(http_exception_from_error(Some(Err(status, details))))

BadPage(record) ==
    /\ record.op = "get_users"
    /\ "page_number" \in DOMAIN record.args
    /\ \E q \in {record.args.page_number, record.args.page_size} : ~q.is_int \/ q.value < 1

(* a POST users request whose body lacks a required field *)
BadBody(record) ==
    /\ record.op = "create_user"
    /\ "user" \in DOMAIN record.args
    /\ ~({"first_name", "last_name", "username", "email"} \subseteq record.args.user.given)

Rejected(record) ==
    /\ record.response.status_code = 400
    /\ IsProblemDetails(record.response)
    /\ record.response.body.title = "Validation Error"
    /\ record.services = <<>>
    /\ record.calls = <<>>

InvalidRejected == (Answered /\ (BadPage(last) \/ BadBody(last))) => Rejected(last)

InvalidTouchesNothing ==
    (last = Idle /\ Answered' /\ (BadPage(last') \/ BadBody(last'))) => store' = store

(* C20: a GET users request whose pageNumber or pageSize is less than 1   *)
(* or no integer, and a request whose body fails validation, is answered   *)
(* with status 400 and a problem-details body; no service method and no    *)
(* Crud method is called for it and the table stays as it is.              *)
C20_ValidationRejected == []InvalidRejected /\ [][InvalidTouchesNothing]_vars

(* GET users with pageNumber=0 and a valid pageSize on a table with rows *)
C20_Witness ==
    /\ Answered /\ BadPage(last)
    /\ last.args.page_number = [is_int |-> TRUE, value |-> 0]
    /\ last.args.page_size = [is_int |-> TRUE, value |-> DEFAULT_PAGE_SIZE]
    /\ store # {}
    /\ last.response.status_code = 400
    /\ last.services = <<>>

----------------------------------------------------------------------------
(* AnyFromListFilter applied to rows with an ARRAY column *)

ArrayValues == {"x", "y", "z"}

RECURSIVE SeqsUpTo(_, _)
SeqsUpTo(S, n) ==
    IF n = 0 THEN {<<>>}
    ELSE LET shorter == SeqsUpTo(S, n - 1)
         IN  shorter \cup {Append(q, x) : q \in shorter, x \in S}

(* the array of a row and the value list of the filter *)
Arrays == SeqsUpTo(ArrayValues, MaxList)

FilterApply ==
    /\ last = Idle
    /\ \E array \in Arrays, value \in Arrays, empty_or \in EmptyOr :
        LET a == AnyFromListApply(array, value, empty_or)
        IN  last' = [op |-> "AnyFromListFilter.apply",
                     args |-> [array |-> array, value |-> value],
                     raised |-> a.raised, matches |-> a.matches]
    /\ UNCHANGED store
    /\ Frame

NextFilter ==
    \/ FilterApply
    \/ Return

SpecFilter == Init /\ [][NextFilter]_vars

(* C18: an AnyFromListFilter with value list L matches a row exactly when *)
(* the row's array holds at least one element of L, for every row and      *)
(* every L.                                                                *)
C18_AnyFromList ==
    last.op = "AnyFromListFilter.apply" =>
        /\ ~last.raised
        /\ last.matches = (\E i \in 1..Len(last.args.array), j \in 1..Len(last.args.value) :
                               last.args.array[i] = last.args.value[j])

====
